---------------------------- MODULE Spec2Model ----------------------------
(***************************************************************************)
(* Model of the website-ingestion backend (Flask app + ingestion pipeline).*)
(*                                                                         *)
(*   Spec           the crawl endpoints of app.py and the background task  *)
(*                  crawl_with_status / ingest   (job lifecycle)           *)
(*   SpecActive     the same, observed through GET /api/crawl/active       *)
(*   SpecDiscovery  AsyncURLDiscovery of url_discovery.py                  *)
(*   SpecFunctions  the functions without state: the two normalize_url and *)
(*                  the namespace of ingest                                *)
(*   SpecCrawler    AsyncRecursiveCrawler of async_crawler.py (extraction) *)
(*   SpecIndexing   ingest from the deduplication to the end of one job    *)
(*   SpecPrecheck   the existing-document check of ingest                  *)
(*   SpecLimiter    RateLimiter of rate_limiter.py                         *)
(*   SpecDiscoveryLive  SpecDiscovery with every request ending            *)
(*   SpecPipeline   one job of ingest from discover_urls to the last batch *)
(*                                                                         *)
(* Python strings are TLA+ strings; the string functions of Python that   *)
(* the code uses (startswith, endswith, rstrip, urljoin, ...) are computed *)
(* on them character by character.                                         *)
(***************************************************************************)
EXTENDS Integers, Sequences, FiniteSets, TLC

(***************************************************************************)
(* Bounds of the model.                                                    *)
(***************************************************************************)
\* accepted submits (background tasks) per run
MaxJobs == 2
\* largest value of int(time.time()) (seconds; the clock starts at 1)
MaxTime == 2
\* URLs discovery can return to a job
MaxDisc == 1
\* chunks the splitter can produce for a job
MaxChunks == 2
\* INGESTION_BATCH_SIZE, scaled down
BatchSize == 1

Min(a, b) == IF a < b THEN a ELSE b

(***************************************************************************)
(* Python str helpers.                                                     *)
(***************************************************************************)
StartsWith(s, p) == Len(s) >= Len(p) /\ SubSeq(s, 1, Len(p)) = p

EndsWith(s, p) == Len(s) >= Len(p) /\ SubSeq(s, Len(s) - Len(p) + 1, Len(s)) = p

\* s.find(sub) + 1: the first position of sub in s, 0 when it does not occur
Find(s, sub) ==
    LET C == {i \in 1..(Len(s) - Len(sub) + 1) : SubSeq(s, i, i + Len(sub) - 1) = sub}
    IN  IF C = {} THEN 0 ELSE CHOOSE i \in C : \A j \in C : i <= j

\* sub in s
Contains(s, sub) == Find(s, sub) # 0

\* the first position of s that holds one of chars, Len(s) + 1 when none does
FirstOf(s, chars) ==
    LET C == {i \in 1..Len(s) : SubSeq(s, i, i) \in chars}
    IN  IF C = {} THEN Len(s) + 1 ELSE CHOOSE i \in C : \A j \in C : i <= j

\* s.rfind(ch) + 1
LastOf(s, ch) ==
    LET C == {i \in 1..Len(s) : SubSeq(s, i, i) = ch}
    IN  IF C = {} THEN 0 ELSE CHOOSE i \in C : \A j \in C : i >= j

RECURSIVE Strip(_)
\* s.strip(), for blanks
Strip(s) ==
    IF s # "" /\ SubSeq(s, 1, 1) = " " THEN Strip(SubSeq(s, 2, Len(s)))
    ELSE IF s # "" /\ SubSeq(s, Len(s), Len(s)) = " " THEN Strip(SubSeq(s, 1, Len(s) - 1))
    ELSE s

RECURSIVE ReplaceBlanks(_)
\* s.replace(' ', '%20')
ReplaceBlanks(s) ==
    IF s = "" THEN ""
    ELSE (IF SubSeq(s, 1, 1) = " " THEN "%20" ELSE SubSeq(s, 1, 1))
            \o ReplaceBlanks(SubSeq(s, 2, Len(s)))

UpperCase == "ABCDEFGHIJKLMNOPQRSTUVWXYZ"

LowerCase == "abcdefghijklmnopqrstuvwxyz"

RECURSIVE Lower(_)
\* s.lower()
Lower(s) ==
    IF s = "" THEN ""
    ELSE LET c == SubSeq(s, 1, 1)
             i == Find(UpperCase, c)
         IN  (IF i = 0 THEN c ELSE SubSeq(LowerCase, i, i))
                \o Lower(SubSeq(s, 2, Len(s)))

(***************************************************************************)
(* State of the job layer (app.py).                                        *)
(***************************************************************************)
VARIABLES
    crawl_status,   \* app.py crawl_status: key -> job record
    order,          \* insertion order of crawl_status' keys (dict order)
    clock,          \* int(time.time())
    threads,        \* the background tasks started so far, in start order
    issued,         \* history: the crawl ids returned by accepted submits
    resp,           \* the last HTTP response
    listing         \* the active_crawls request in progress, if any

jobVars == <<crawl_status, order, clock, threads, issued, resp, listing>>

(***************************************************************************)
(* State of one discovery run (url_discovery.py AsyncURLDiscovery).        *)
(***************************************************************************)
VARIABLES
    site,           \* the web site the run crawls (the name of a fixture)
    seed_urls,      \* AsyncURLDiscovery.seed_urls
    max_urls,       \* AsyncURLDiscovery.max_urls
    visited,        \* AsyncURLDiscovery.visited
    found_urls,     \* AsyncURLDiscovery.found_urls
    ready,          \* crawl_url coroutines scheduled but not yet started, in
                    \* the event loop's (FIFO) order
    waiters,        \* coroutines waiting for the semaphore, in FIFO order
    tasks,          \* coroutines with a request in flight: [url, pc]
    holders,        \* number of coroutines inside "async with self.semaphore"
    fetch_failed,   \* history: some fetch of the run raised
    returned,       \* discover() has returned
    discovered      \* what discover() returned

discVars == <<site, seed_urls, max_urls, visited, found_urls, ready, waiters,
              tasks, holders,
              fetch_failed, returned, discovered>>

(***************************************************************************)
(* One call of a function that has no state of its own (normalize_url,     *)
(* the namespace of ingest).                                               *)
(***************************************************************************)
VARIABLES
    fn_call,        \* the call: [fn, args]
    fn_ret          \* what it returned

fnVars == <<fn_call, fn_ret>>

(***************************************************************************)
(* State of one extraction run (async_crawler.py AsyncRecursiveCrawler).   *)
(***************************************************************************)
VARIABLES
    urls,           \* the URLs crawl_urls is called with
    max_pages,      \* AsyncRecursiveCrawler.max_pages
    crawler_visited,\* AsyncRecursiveCrawler.visited
    documents,      \* AsyncRecursiveCrawler.documents
    error_count,    \* AsyncRecursiveCrawler.error_count
    pending,        \* fetch_and_parse coroutines gathered but not yet
                    \* started, in the event loop's (FIFO) order
    sem_queue,      \* coroutines waiting for the semaphore, in FIFO order
    fetching,       \* coroutines with a request in flight: [url, pc]
    sem_held,       \* number of coroutines inside "async with self.semaphore"
    requests,       \* history: the URLs session.get was called with, in order
    outcome,        \* history: how each admitted URL ended
    crawl_result    \* [phase, documents]: how far start_async is, and what
                    \* it returned

crawlerVars == <<urls, max_pages, crawler_visited, documents, error_count,
                 pending, sem_queue, fetching, sem_held, requests, outcome,
                 crawl_result>>

(***************************************************************************)
(* State of ingest from the deduplication on (ingest.py 188-285), for one  *)
(* job.                                                                    *)
(***************************************************************************)
VARIABLES
    ingest_pc,      \* where ingest / crawl_with_status is
    docs,           \* the Documents crawl_urls_async returned (ingest.py 131)
    unique_docs,    \* ingest.py 191
    split_docs,     \* ingest.py 209 (named docs from line 212 on)
    batch_i,        \* the loop variable i of ingest.py 232
    indexed_count,  \* ingest.py 229
    failed_batches, \* ingest.py 230
    attempts        \* history: the batches handed to
                    \* PineconeVectorStore.from_documents, in order

indexVars == <<ingest_pc, docs, unique_docs, split_docs, batch_i,
               indexed_count, failed_batches, attempts>>

(***************************************************************************)
(* State of the existing-document check of one job (ingest.py 100-118,     *)
(* check_existing_documents).                                              *)
(***************************************************************************)
VARIABLES
    precheck_pc,     \* where ingest / check_existing_documents is
    discovered_urls, \* ingest.py 94: what discover_urls returned
    index_sources,   \* the Pinecone namespace: the sources that have vectors
    sample_i,        \* how many URLs of urls[:100] the loop has gone through
    existing_urls,   \* "existing" of check_existing_documents, then
                     \* existing_urls of ingest
    client_failed,   \* history: setting up the index client raised
    queried,         \* history: the URLs similarity_search was called with
    query_failed,    \* history: the URLs whose similarity_search raised
    to_fetch         \* history: the urls crawl_urls_async is called with

precheckVars == <<precheck_pc, discovered_urls, index_sources, sample_i,
                  existing_urls, client_failed, queried, query_failed,
                  to_fetch>>

(***************************************************************************)
(* State of the rate limiter (rate_limiter.py RateLimiter).                *)
(***************************************************************************)
VARIABLES
    limiter_requests, \* RateLimiter.requests: key -> list of timestamps
    limiter_now,      \* what time.time() returns
    admitted,         \* history: key -> the times of its last is_allowed
                      \* calls that returned True (one more than the limit)
    denied,           \* history: the keys whose last is_allowed call
                      \* returned False
    last_call         \* history: the last call, its time and its result

limiterVars == <<limiter_requests, limiter_now, admitted, denied, last_call>>

\* what the job layer never touches
notJobVars == <<discVars, fnVars, crawlerVars, indexVars, precheckVars,
                limiterVars>>

\* what a discovery run never touches
notDiscVars == <<jobVars, fnVars, crawlerVars, indexVars, precheckVars,
                 limiterVars>>

\* what a function call never touches
notFnVars == <<jobVars, discVars, crawlerVars, indexVars, precheckVars,
               limiterVars>>

\* what an extraction run never touches
notCrawlerVars == <<jobVars, discVars, fnVars, indexVars, precheckVars,
                    limiterVars>>

\* what the indexing of a job never touches, but for its record in
\* crawl_status
notIndexVars == <<order, clock, threads, issued, resp, listing,
                  discVars, fnVars, crawlerVars, precheckVars, limiterVars>>

\* what the existing-document check never touches
notPrecheckVars == <<jobVars, discVars, fnVars, crawlerVars, indexVars,
                     limiterVars>>

\* what the rate limiter never touches
notLimiterVars == <<jobVars, discVars, fnVars, crawlerVars, indexVars,
                    precheckVars>>

\* The URLs clients post.  "http://a_2" is the URL whose text is also the
\* crawl id of "http://a" submitted at second 2.
SubmitURLs == {"", "ftp://a", "http://a", "http://a_2"}

NoResult == [kind |-> "none", total |-> 0, indexed |-> 0, failed |-> 0]

NoResp == [op |-> "none", code |-> 0, url |-> "", id |-> "", keys |-> {}]

NoListing == [on |-> FALSE, size |-> 0, pos |-> 0, acc |-> {}]

\* crawl(): the crawl id of an accepted submit
CrawlId(url, now) == url \o "_" \o ToString(now)

\* crawl(): the record an accepted submit stores
NewRecord(url) ==
    [url |-> url, status |-> "running", stage |-> "none",
     pages_crawled |-> 0, pages_indexed |-> 0, errors |-> 0,
     perror |-> "", completed_at |-> FALSE, result |-> NoResult, error |-> ""]

\* threading.Thread(target=crawl_with_status, args=(url, depth, crawl_id))
NewThread(url, id) ==
    [id |-> id, url |-> url, pc |-> "start", ndisc |-> 0, nleft |-> 0,
     nodocs |-> FALSE, nchunks |-> 0, i |-> 0, indexed |-> 0, failed |-> 0,
     result |-> NoResult]

\* dict item assignment d[k] = v
Put(d, k, v) == [x \in DOMAIN d \cup {k} |-> IF x = k THEN v ELSE d[x]]

\* crawl(): the "already crawling" test
AlreadyCrawling(url) ==
    url \in DOMAIN crawl_status /\ crawl_status[url].status = "running"

\* no discovery run
IdleDiscovery ==
    /\ site = "none"
    /\ seed_urls = <<>>
    /\ max_urls = 0
    /\ visited = {}
    /\ found_urls = {}
    /\ ready = <<>>
    /\ waiters = <<>>
    /\ tasks = {}
    /\ holders = 0
    /\ fetch_failed = FALSE
    /\ returned = FALSE
    /\ discovered = {}

\* the server has just started, at second now
InitJobsAt(now) ==
    /\ crawl_status = <<>>
    /\ order = <<>>
    /\ clock = now
    /\ threads = <<>>
    /\ issued = {}
    /\ resp = NoResp
    /\ listing = NoListing

InitJobs == InitJobsAt(1)

\* no function has been called
NoCall == [fn |-> "none", args |-> <<>>]

IdleFunctions ==
    /\ fn_call = NoCall
    /\ fn_ret = ""

NoCrawlResult == [phase |-> "none", documents |-> <<>>]

\* no extraction run
IdleCrawler ==
    /\ urls = <<>>
    /\ max_pages = 0
    /\ crawler_visited = {}
    /\ documents = <<>>
    /\ error_count = 0
    /\ pending = <<>>
    /\ sem_queue = <<>>
    /\ fetching = {}
    /\ sem_held = 0
    /\ requests = <<>>
    /\ outcome = <<>>
    /\ crawl_result = NoCrawlResult

\* ingest is not past the extraction
IdleIndexing ==
    /\ ingest_pc = "idle"
    /\ docs = <<>>
    /\ unique_docs = <<>>
    /\ split_docs = <<>>
    /\ batch_i = 0
    /\ indexed_count = 0
    /\ failed_batches = <<>>
    /\ attempts = <<>>

\* ingest is not at the existing-document check
IdlePrecheck ==
    /\ precheck_pc = "idle"
    /\ discovered_urls = <<>>
    /\ index_sources = {}
    /\ sample_i = 0
    /\ existing_urls = {}
    /\ client_failed = FALSE
    /\ queried = <<>>
    /\ query_failed = {}
    /\ to_fetch = <<>>

\* the rate limiter was never called
NoLimiterCall ==
    [op |-> "none", key |-> "", allowed |-> FALSE, after_denial |-> FALSE,
     remaining |-> 0, n |-> 0]

IdleLimiter ==
    /\ limiter_requests = <<>>
    /\ limiter_now = 0
    /\ admitted = <<>>
    /\ denied = {}
    /\ last_call = NoLimiterCall

\* neither the existing-document check nor the rate limiter is running
IdleChecks == IdlePrecheck /\ IdleLimiter

\* nothing but the job layer is running
IdleRest ==
    IdleDiscovery /\ IdleFunctions /\ IdleCrawler /\ IdleIndexing /\ IdleChecks


(***************************************************************************)
(* POST /api/crawl  (app.py crawl).                                        *)
(***************************************************************************)
Answer(op, code, url, id, keys) ==
    resp' = [op |-> op, code |-> code, url |-> url, id |-> id, keys |-> keys]

\* "if not url": 400
SubmitMissing(url) ==
    /\ url = ""
    /\ Answer("submit", 400, url, "", {})
    /\ UNCHANGED <<crawl_status, order, clock, threads, issued, listing, notJobVars>>

\* "if not url.startswith(('http://', 'https://'))": 400
SubmitInvalid(url) ==
    /\ url # ""
    /\ ~(StartsWith(url, "http://") \/ StartsWith(url, "https://"))
    /\ Answer("submit", 400, url, "", {})
    /\ UNCHANGED <<crawl_status, order, clock, threads, issued, listing, notJobVars>>

\* "Already crawling this URL": 409
SubmitRejected(url) ==
    /\ url # ""
    /\ StartsWith(url, "http://") \/ StartsWith(url, "https://")
    /\ AlreadyCrawling(url)
    /\ Answer("submit", 409, url, "", {})
    /\ UNCHANGED <<crawl_status, order, clock, threads, issued, listing, notJobVars>>

\* the record is stored under the crawl id, the thread is started, 200
SubmitAccepted(url) ==
    /\ Len(threads) < MaxJobs
    /\ url # ""
    /\ StartsWith(url, "http://") \/ StartsWith(url, "https://")
    /\ ~AlreadyCrawling(url)
    /\ LET crawl_id == CrawlId(url, clock) IN
        /\ crawl_status' = Put(crawl_status, crawl_id, NewRecord(url))
        /\ order' = IF crawl_id \in DOMAIN crawl_status
                    THEN order ELSE Append(order, crawl_id)
        /\ threads' = Append(threads, NewThread(url, crawl_id))
        /\ issued' = issued \cup {crawl_id}
        /\ Answer("submit", 200, url, crawl_id, {})
    /\ UNCHANGED <<clock, listing, notJobVars>>

\* time.time() advances
Tick ==
    /\ clock < MaxTime
    /\ clock' = clock + 1
    /\ UNCHANGED <<crawl_status, order, threads, issued, resp, listing, notJobVars>>

(***************************************************************************)
(* GET /api/crawl/status/<crawl_id>  (app.py crawl_status_endpoint).       *)
(***************************************************************************)
\* the keys clients ask for: a URL that is never an id, and three possible ids
StatusKeys == {"http://a", "http://a_1", "http://a_2", "http://a_2_1"}

\* the endpoint without its membership test: the lookup of an unknown id
\* raises KeyError (500)
crawl_status_endpoint_unchecked(crawl_id) ==
    IF crawl_id \notin DOMAIN crawl_status
    THEN [code |-> 500, body |-> [error |-> "KeyError"]]
    ELSE [code |-> 200, body |-> crawl_status[crawl_id]]

crawl_status_endpoint(crawl_id) ==
    IF crawl_id \notin DOMAIN crawl_status
    THEN [code |-> 404, body |-> [error |-> "Crawl ID not found"]]
    ELSE [code |-> 200, body |-> crawl_status[crawl_id]]

StatusQuery(crawl_id) ==
    /\ Answer("status", crawl_status_endpoint(crawl_id).code, "", crawl_id, {})
    /\ UNCHANGED <<crawl_status, order, clock, threads, issued, listing, notJobVars>>

(***************************************************************************)
(* GET /api/crawl/active  (app.py active_crawls).  The dict comprehension  *)
(* walks crawl_status.items() one item at a time while other request       *)
(* threads and the background tasks run; a dict whose size changed raises   *)
(* RuntimeError at the next item (500).                                    *)
(***************************************************************************)
\* the comprehension's filter
IsActive(v) == v.status = "running"

ActiveBegin ==
    /\ ~listing.on
    /\ listing' = [on |-> TRUE, size |-> Len(order), pos |-> 0, acc |-> {}]
    /\ UNCHANGED <<crawl_status, order, clock, threads, issued, resp, notJobVars>>

ActiveItem ==
    /\ listing.on
    /\ Len(order) = listing.size
    /\ listing.pos < listing.size
    /\ LET k == order[listing.pos + 1] IN
        listing' = [listing EXCEPT
                      !.pos = @ + 1,
                      !.acc = IF IsActive(crawl_status[k]) THEN @ \cup {k} ELSE @]
    /\ UNCHANGED <<crawl_status, order, clock, threads, issued, resp, notJobVars>>

ActiveRaises ==
    /\ listing.on
    /\ Len(order) # listing.size
    /\ listing' = NoListing
    /\ Answer("active", 500, "", "", {})
    /\ UNCHANGED <<crawl_status, order, clock, threads, issued, notJobVars>>

ActiveEnd ==
    /\ listing.on
    /\ Len(order) = listing.size
    /\ listing.pos = listing.size
    /\ listing' = NoListing
    /\ Answer("active", 200, "", "", listing.acc)
    /\ UNCHANGED <<crawl_status, order, clock, threads, issued, notJobVars>>

(***************************************************************************)
(* The background task: crawl_with_status (app.py) running ingest          *)
(* (ingest.py).  Every write to the shared record is a step of its own.    *)
(* A call that writes nothing shared (discover_urls, the existing-index    *)
(* filter, crawl_urls_async, the splitter) is part of the step of the      *)
(* write that follows it; what it returns is outside the task's control    *)
(* and is drawn from a bounded set.                                        *)
(***************************************************************************)
\* what a step of the task leaves alone
TaskFrame == UNCHANGED <<order, clock, issued, resp, listing, notJobVars>>

\* crawl_status[crawl_id][field] = value, and the task goes on as t
Write(j, field, value, t) ==
    /\ crawl_status' = [crawl_status EXCEPT ![threads[j].id][field] = value]
    /\ threads' = [threads EXCEPT ![j] = t]
    /\ TaskFrame

At(j, pc) == [threads[j] EXCEPT !.pc = pc]

\* where task j is ("absent": no such task was started)
Pc(j) == IF j \in DOMAIN threads THEN threads[j].pc ELSE "absent"

\* ingest.py 83-84
StageDiscovery(j) ==
    /\ Pc(j) = "start"
    /\ Write(j, "stage", "url_discovery", At(j, "discover"))

\* ingest.py 94-98: discover_urls returns n URLs
StageDedup(j) ==
    /\ Pc(j) = "discover"
    /\ \E n \in 0..MaxDisc :
        Write(j, "stage", "deduplication_check",
              [threads[j] EXCEPT !.ndisc = n, !.pc = "check_existing"])

\* the existing-document sample: urls[:100]
PRECHECK_LIMIT == 100

\* ingest.py 102-105: the URLs left once e of them are found in the index
Remaining(ndisc, e) == ndisc - e

\* ingest.py 107-115
AlreadyIndexedResult ==
    [kind |-> "already_indexed", total |-> 0, indexed |-> 0, failed |-> 0]

\* ingest.py 180
NoDocumentsResult ==
    [kind |-> "no_documents", total |-> 0, indexed |-> 0, failed |-> 0]

\* ingest.py 102-118: some URL is left to crawl
StageExtraction(j) ==
    /\ Pc(j) = "check_existing"
    /\ \E e \in 0..Min(threads[j].ndisc, PRECHECK_LIMIT) :
        /\ Remaining(threads[j].ndisc, e) # 0
        /\ Write(j, "stage", "content_extraction",
                 [threads[j] EXCEPT !.ndisc = 0,
                                    !.nleft = Remaining(threads[j].ndisc, e),
                                    !.pc = "extract"])

\* ingest.py 102-115, app.py 97: no URL is left, ingest returns early
ReturnAlreadyIndexed(j) ==
    /\ Pc(j) = "check_existing"
    /\ \E e \in 0..Min(threads[j].ndisc, PRECHECK_LIMIT) :
        /\ Remaining(threads[j].ndisc, e) = 0
        /\ Write(j, "status", "completed",
                 [threads[j] EXCEPT !.ndisc = 0, !.result = AlreadyIndexedResult,
                                    !.pc = "set_completed_at"])

\* ingest.py 131-185: crawl_urls_async returns d > 0 Documents
SetPagesCrawled(j) ==
    /\ Pc(j) = "extract"
    /\ \E d \in 1..threads[j].nleft :
        Write(j, "pages_crawled", d,
              [threads[j] EXCEPT !.nleft = 0, !.pc = "stage_indexing"])

\* ingest.py 131-178: crawl_urls_async returns no Document
NoDocsStage(j) ==
    /\ Pc(j) = "extract"
    /\ Write(j, "stage", "failed",
             [threads[j] EXCEPT !.nleft = 0, !.nodocs = TRUE, !.pc = "nodocs_error"])

\* ingest.py 179
NoDocsError(j) ==
    /\ Pc(j) = "nodocs_error"
    /\ Write(j, "perror", "No documents found", At(j, "nodocs_return"))

\* ingest.py 180, app.py 97: return {'success': False, ...}
NoDocsReturn(j) ==
    /\ Pc(j) = "nodocs_return"
    /\ Write(j, "status", "completed",
             [threads[j] EXCEPT !.result = NoDocumentsResult,
                                !.pc = "set_completed_at"])

\* ingest.py 186
StageIndexing(j) ==
    /\ Pc(j) = "stage_indexing"
    /\ Write(j, "stage", "indexing", At(j, "split"))

\* ingest.py 232-233: len(docs[i:i + INGESTION_BATCH_SIZE])
BatchLen(n, i) == Min(BatchSize, n - i)

\* ingest.py 188-252: (dedup, split into c chunks, load the model, then)
\* the next batch is indexed
BatchOk(j) ==
    /\ Pc(j) \in {"split", "batch"}
    /\ \E c \in 1..MaxChunks :
        LET t == IF Pc(j) = "split"
                 THEN [threads[j] EXCEPT !.nchunks = c, !.pc = "batch"]
                 ELSE threads[j]
            done == t.indexed + BatchLen(t.nchunks, t.i)
        IN  /\ (Pc(j) = "batch") => (c = threads[j].nchunks)
            /\ t.i < t.nchunks
            /\ Write(j, "pages_indexed", done,
                     [t EXCEPT !.indexed = done, !.i = @ + BatchSize])

\* ingest.py 188-260: (dedup, split, load, then) the next batch fails
BatchFails(j) ==
    /\ Pc(j) \in {"split", "batch"}
    /\ \E c \in 1..MaxChunks :
        LET t == IF Pc(j) = "split"
                 THEN [threads[j] EXCEPT !.nchunks = c, !.pc = "batch"]
                 ELSE threads[j]
        IN  /\ (Pc(j) = "batch") => (c = threads[j].nchunks)
            /\ t.i < t.nchunks
            /\ Write(j, "errors", crawl_status[t.id].errors + 1,
                     [t EXCEPT !.failed = @ + 1, !.i = @ + BatchSize])

\* ingest.py 271-282: the loop is over
StageCompleted(j) ==
    /\ Pc(j) = "batch"
    /\ threads[j].i >= threads[j].nchunks
    /\ Write(j, "stage", "completed",
             [threads[j] EXCEPT
                !.result = [kind |-> "indexed", total |-> threads[j].nchunks,
                            indexed |-> threads[j].indexed,
                            failed |-> threads[j].failed],
                !.nchunks = 0, !.i = 0, !.indexed = 0, !.failed = 0,
                !.pc = "ingest_result"])

\* ingest.py 283
IngestResult(j) ==
    /\ Pc(j) = "ingest_result"
    /\ Write(j, "result", threads[j].result, At(j, "returned"))

\* ingest.py 285, app.py 97
SetCompleted(j) ==
    /\ Pc(j) = "returned"
    /\ Write(j, "status", "completed", At(j, "set_completed_at"))

\* app.py 98
SetCompletedAt(j) ==
    /\ Pc(j) = "set_completed_at"
    /\ Write(j, "completed_at", TRUE, At(j, "set_result"))

\* app.py 99
SetResult(j) ==
    /\ Pc(j) = "set_result"
    /\ Write(j, "result", threads[j].result, At(j, "done"))

\* where a call of ingest can raise: discover_urls (94), crawl_urls_async
\* (131: the crawl log cannot be created), HuggingFaceEmbeddings (220)
RaisePoints == {"discover", "extract", "split"}

\* app.py 100-101: ingest raised
SetFailed(j) ==
    /\ Pc(j) \in RaisePoints
    /\ Write(j, "status", "failed",
             [threads[j] EXCEPT !.ndisc = 0, !.nleft = 0, !.pc = "set_error"])

\* app.py 102
SetError(j) ==
    /\ Pc(j) = "set_error"
    /\ Write(j, "error", "exception", At(j, "done"))

Task(j) ==
    \/ StageDiscovery(j) \/ StageDedup(j)
    \/ StageExtraction(j) \/ ReturnAlreadyIndexed(j)
    \/ SetPagesCrawled(j) \/ NoDocsStage(j) \/ NoDocsError(j) \/ NoDocsReturn(j)
    \/ StageIndexing(j) \/ BatchOk(j) \/ BatchFails(j)
    \/ StageCompleted(j) \/ IngestResult(j)
    \/ SetCompleted(j) \/ SetCompletedAt(j) \/ SetResult(j)
    \/ SetFailed(j) \/ SetError(j)

Submit ==
    \E url \in SubmitURLs :
        \/ SubmitMissing(url) \/ SubmitInvalid(url)
        \/ SubmitRejected(url) \/ SubmitAccepted(url)

Tasks == \E j \in 1..MaxJobs : Task(j)

Status == \E crawl_id \in StatusKeys : StatusQuery(crawl_id)

Active == ActiveBegin \/ ActiveItem \/ ActiveRaises \/ ActiveEnd

Init == InitJobs /\ IdleRest

\* the job lifecycle, observed through the status endpoint
Next == Submit \/ Tick \/ Tasks \/ Status

vars == <<jobVars, discVars, fnVars, crawlerVars, indexVars, precheckVars,
          limiterVars>>

Spec == Init /\ [][Next]_vars

\* the job lifecycle within one second (the last one, in which the text of a
\* posted URL can be the id of another job), observed through the active
\* listing
InitActive == InitJobsAt(MaxTime) /\ IdleRest

NextActive == Submit \/ Tasks \/ Active

SpecActive == InitActive /\ [][NextActive]_vars

(***************************************************************************)
(* Job lifecycle: the claims.                                              *)
(***************************************************************************)
Terminal == {"completed", "failed"}

\* the jobs (background tasks) started for root URL u
JobsOf(u) == {j \in DOMAIN threads : threads[j].url = u}

\* job j has not yet been given a terminal status by its own task
JobRunning(j) ==
    threads[j].pc \notin {"set_completed_at", "set_result", "set_error", "done"}

\* the records kept for root URL u
RecordsOf(u) == {k \in DOMAIN crawl_status : crawl_status[k].url = u}

\* this step answers a POST /api/crawl
SubmitAnswered ==
    /\ resp'.op = "submit"
    /\ resp' # resp \/ Len(threads') # Len(threads)

\* C1: at any time at most one job per root URL is in a non-terminal state:
\* no root URL has two running records or two running background tasks, and
\* a submit for a root URL that has a running job is answered 409 and starts
\* nothing.
C1_OneActiveJobPerURL ==
    \A u \in SubmitURLs :
        /\ Cardinality({k \in RecordsOf(u) : crawl_status[k].status = "running"}) <= 1
        /\ Cardinality({j \in JobsOf(u) : JobRunning(j)}) <= 1

\* C2: once every job of a root URL is terminal, the next submit for that
\* root URL is accepted (200) and its id names a fresh record: running, all
\* progress counters zero.
C2_ResubmitAccepted ==
    [][ (/\ SubmitAnswered
         /\ JobsOf(resp'.url) # {}
         /\ \A j \in JobsOf(resp'.url) : threads[j].pc = "done"
         /\ \A k \in RecordsOf(resp'.url) : crawl_status[k].status \in Terminal)
        => (/\ resp'.code = 200
            /\ resp'.id \in DOMAIN crawl_status'
            /\ crawl_status'[resp'.id] = NewRecord(resp'.url)) ]_vars

\* C3: a job whose extraction yielded zero Documents is never reported
\* completed; once its task has ended it is failed and carries an error message.
C3_NoDocumentsFails ==
    \A j \in DOMAIN threads :
        threads[j].nodocs =>
            /\ crawl_status[threads[j].id].status # "completed"
            /\ threads[j].pc = "done" =>
                 /\ crawl_status[threads[j].id].status = "failed"
                 /\ crawl_status[threads[j].id].error # ""

\* the phases in order; a record that has no stage yet is pending ("none")
PhaseOrder ==
    <<"none", "url_discovery", "deduplication_check", "content_extraction",
      "indexing", "completed">>

PhaseIndex(stage) == CHOOSE i \in DOMAIN PhaseOrder : PhaseOrder[i] = stage

\* a legal move of the phase: stay, advance to the next phase, or fail
PhaseMove(a, b) ==
    \/ a = b
    \/ b = "failed"
    \/ a # "failed" /\ PhaseIndex(b) = PhaseIndex(a) + 1

\* C4: the phase of every job only stays, advances to the next phase or goes
\* to failed, and a job reported completed shows the phase completed.
C4_PhasesForward ==
    [][ \A k \in DOMAIN crawl_status :
          /\ PhaseMove(crawl_status[k].stage, crawl_status'[k].stage)
          /\ crawl_status'[k].status = "completed"
                => crawl_status'[k].stage = "completed" ]_vars

\* C5: the status endpoint answers 404 for every id that was never issued,
\* and for every issued id, from the moment submit returned it, it answers
\* 200 with the record of that id (the record of the URL the id was made
\* from); the responses the endpoint gave agree.
C5_StatusKnownOrNotFound ==
    /\ \A k \in StatusKeys \cup issued :
         LET r == crawl_status_endpoint(k) IN
         IF k \in issued
         THEN /\ r.code = 200
              /\ \E t \in 1..MaxTime : CrawlId(r.body.url, t) = k
              /\ r.body.status \in {"running"} \cup Terminal
         ELSE r.code = 404
    /\ resp.op = "status" => resp.code = IF resp.id \in issued THEN 200 ELSE 404

\* C5 witness: the status of an issued id was asked after its job ended,
\* while another key was never issued
C5_Witness ==
    /\ resp.op = "status" /\ resp.code = 200
    /\ crawl_status[resp.id].status \in Terminal
    /\ \E k \in StatusKeys : k \notin issued

\* C6: every answer of the active listing is a 200 that holds exactly the
\* ids of the jobs that are not terminal.
C6_ActiveListsRunning ==
    [][ (listing.on /\ ~listing'.on)
        => (/\ resp'.code = 200
            /\ resp'.keys = {threads[j].id : j \in {i \in DOMAIN threads : JobRunning(i)}}) ]_vars

(***************************************************************************)
(* URL discovery (url_discovery.py).                                       *)
(*                                                                         *)
(* urllib.parse, for the URL shapes that occur in the fixtures: absolute   *)
(* http(s) URLs and hrefs that are absolute, protocol-relative ("//h/p"),  *)
(* root-relative ("/p"), query-only ("?q") or relative ("p"), without dot  *)
(* segments.                                                               *)
(***************************************************************************)
\* urlparse(u).scheme
Scheme(u) == IF Contains(u, "://") THEN SubSeq(u, 1, Find(u, "://") - 1) ELSE ""

\* what follows "scheme://"
AfterScheme(u) ==
    IF Contains(u, "://") THEN SubSeq(u, Find(u, "://") + 3, Len(u)) ELSE ""

\* urlparse(u).netloc
Netloc(u) ==
    SubSeq(AfterScheme(u), 1, FirstOf(AfterScheme(u), {"/", "?", "#"}) - 1)

\* urlparse(u).path
Path(u) ==
    LET r == AfterScheme(u)
        tail == SubSeq(r, FirstOf(r, {"/", "?", "#"}), Len(r))
    IN  SubSeq(tail, 1, FirstOf(tail, {"?", "#"}) - 1)

\* urljoin(base, url)
urljoin(base, url) ==
    IF url = "" THEN base
    ELSE IF StartsWith(url, "http://") \/ StartsWith(url, "https://") THEN url
    ELSE IF StartsWith(url, "//") THEN Scheme(base) \o ":" \o url
    ELSE IF StartsWith(url, "/")
         THEN Scheme(base) \o "://" \o Netloc(base) \o url
    ELSE IF StartsWith(url, "?")
         THEN Scheme(base) \o "://" \o Netloc(base) \o Path(base) \o url
    ELSE Scheme(base) \o "://" \o Netloc(base)
            \o (IF Path(base) = "" THEN "/"
                ELSE SubSeq(Path(base), 1, LastOf(Path(base), "/")))
            \o url

\* AsyncURLDiscovery.normalize_url
normalize_url(base, url) ==
    LET absolute == urljoin(base, url) IN
    IF Contains(url, "//") /\ ~StartsWith(url, "http")
    THEN Scheme(absolute) \o "://" \o Netloc(absolute) \o ReplaceBlanks(url)
    ELSE ReplaceBlanks(absolute)

\* crawl_url: "Skip unusable links"
Unusable(href) ==
    \E p \in {"mailto:", "javascript:", "#", "tel:"} : StartsWith(href, p)

\* crawl_url: "Only subdomains of allowed domain"
InAllowedDomain(new_url, allowed_domain) ==
    EndsWith(Netloc(new_url), allowed_domain)

(***************************************************************************)
(* The sites discovery runs against: url -> content type and the hrefs of  *)
(* the page's anchors in document order.  A URL that no fixture lists is    *)
(* answered with an HTML page without links.                               *)
(***************************************************************************)
\* AsyncURLDiscovery.allowed_domain
allowed_domain == "ex.com"

Html(hrefs) == [ctype |-> "text/html; charset=utf-8", hrefs |-> hrefs]

\* the end-to-end fixture: a root page that links to 3 same-domain HTML
\* pages, 1 PDF and 1 external page
SiteE2E ==
    ("https://ex.com/" :> Html(<<"/a", "/b", "/c", "/doc.pdf", "https://other.org/">>))
    @@ ("https://ex.com/a" :> Html(<<"/">>))
    @@ ("https://ex.com/doc.pdf" :> [ctype |-> "application/pdf", hrefs |-> <<>>])

\* a site whose root page spells one page three ways and links to a login
\* page, to a subdomain and to a host that only ends with the domain's text
SiteMixed ==
    ("https://ex.com/" :>
        Html(<<" /p/ ", "p#top", "#top", "mailto:x@ex.com", "/login",
               "https://sub.ex.com/", "https://notex.com/">>))
    @@ ("https://ex.com/p/" :> Html(<<"/p">>))

\* a site whose root page links twice to one page, to a second page and to
\* a PDF
SiteSmall ==
    "https://ex.com/" :> Html(<<"/a", "/a", "/b", "/doc.pdf">>)
    @@ ("https://ex.com/doc.pdf" :> [ctype |-> "application/pdf", hrefs |-> <<>>])

Sites == {"e2e", "mixed"}

Pages(s) ==
    IF s = "e2e" THEN SiteE2E ELSE IF s = "small" THEN SiteSmall ELSE SiteMixed

\* what the server of site s answers for url
PageOf(s, url) ==
    IF url \in DOMAIN Pages(s) THEN Pages(s)[url] ELSE Html(<<>>)

\* the seed lists a run is started with
SeedChoices(s) ==
    IF s = "e2e"
    THEN {<<"https://ex.com/">>, <<"https://ex.com/", "https://ex.com/a">>}
    ELSE {<<"https://ex.com/">>}

\* largest max_urls a run is started with
MaxUrlsBound == 7

\* asyncio.Semaphore(MAX_CONCURRENCY), scaled down
DiscoveryConcurrency == 2

\* AsyncURLDiscovery.__init__, and discover scheduling one crawl_url per seed
NewDiscovery ==
    /\ site \in Sites
    /\ seed_urls \in SeedChoices(site)
    /\ max_urls \in 0..MaxUrlsBound
    /\ visited = {}
    /\ found_urls = {}
    /\ ready = seed_urls
    /\ waiters = <<>>
    /\ tasks = {}
    /\ holders = 0
    /\ fetch_failed = FALSE
    /\ returned = FALSE
    /\ discovered = {}

(***************************************************************************)
(* The coroutines of one discover() call.  A coroutine runs without        *)
(* interruption from one await that suspends to the next, so each action   *)
(* is one such stretch: the start of crawl_url up to session.get, the      *)
(* arrival of the response headers, the arrival of the body followed by   *)
(* the link loop.  A coroutine that waits in gather for its children does  *)
(* nothing afterwards and is dropped.                                      *)
(***************************************************************************)
DiscFrame == UNCHANGED <<site, seed_urls, max_urls, notDiscVars>>

\* a crawl without the cap
CapReached_never(found) == FALSE

\* the cap test of crawl_url, on a found-set
CapReached(found) == Cardinality(found) >= max_urls

\* leaving "async with self.semaphore": the longest waiting coroutine gets
\* the permit and sends its request, else the permit is returned
Release(rest) ==
    IF waiters # <<>>
    THEN /\ tasks' = rest \cup {[url |-> Head(waiters), pc |-> "get"]}
         /\ waiters' = Tail(waiters)
         /\ holders' = holders
    ELSE /\ tasks' = rest
         /\ waiters' = waiters
         /\ holders' = holders - 1

\* crawl_url returns at once: url already visited or cap reached
CrawlSkip ==
    /\ ~returned /\ ready # <<>>
    /\ Head(ready) \in visited \/ CapReached(found_urls)
    /\ ready' = Tail(ready)
    /\ UNCHANGED <<visited, found_urls, waiters, tasks, holders, fetch_failed,
                   returned, discovered>>
    /\ DiscFrame

\* crawl_url marks url visited, fetch gets the semaphore and sends the request
CrawlBegin ==
    /\ ~returned /\ ready # <<>>
    /\ Head(ready) \notin visited /\ ~CapReached(found_urls)
    /\ holders < DiscoveryConcurrency
    /\ visited' = visited \cup {Head(ready)}
    /\ ready' = Tail(ready)
    /\ holders' = holders + 1
    /\ tasks' = tasks \cup {[url |-> Head(ready), pc |-> "get"]}
    /\ UNCHANGED <<found_urls, waiters, fetch_failed, returned, discovered>>
    /\ DiscFrame

\* crawl_url marks url visited, fetch has to wait for the semaphore
CrawlBeginWait ==
    /\ ~returned /\ ready # <<>>
    /\ Head(ready) \notin visited /\ ~CapReached(found_urls)
    /\ holders >= DiscoveryConcurrency
    /\ visited' = visited \cup {Head(ready)}
    /\ ready' = Tail(ready)
    /\ waiters' = Append(waiters, Head(ready))
    /\ UNCHANGED <<found_urls, tasks, holders, fetch_failed, returned,
                   discovered>>
    /\ DiscFrame

IsHtml(content_type) == Contains(content_type, "text/html")

\* fetch: the response is not HTML; the URL is saved and fetch returns None
FetchNonHtml ==
    \E t \in tasks :
        /\ t.pc = "get"
        /\ ~IsHtml(PageOf(site, t.url).ctype)
        /\ found_urls' = found_urls \cup {t.url}
        /\ Release(tasks \ {t})
        /\ UNCHANGED <<visited, ready, fetch_failed, returned, discovered>>
        /\ DiscFrame

\* fetch: the response is HTML; the URL is saved and the body awaited
FetchHtmlHeaders ==
    \E t \in tasks :
        /\ t.pc = "get"
        /\ IsHtml(PageOf(site, t.url).ctype)
        /\ found_urls' = found_urls \cup {t.url}
        /\ tasks' = (tasks \ {t}) \cup {[t EXCEPT !.pc = "text"]}
        /\ UNCHANGED <<visited, ready, waiters, holders, fetch_failed,
                       returned, discovered>>
        /\ DiscFrame

\* a fetch whose exception leaves discover(): the call ends with no result
FetchFails_aborts ==
    \E t \in tasks :
        /\ fetch_failed' = TRUE
        /\ returned' = TRUE
        /\ discovered' = {}
        /\ tasks' = {} /\ waiters' = <<>> /\ ready' = <<>> /\ holders' = 0
        /\ UNCHANGED <<visited, found_urls>>
        /\ DiscFrame

\* fetch: session.get or resp.text() raises (timeout, connection error);
\* fetch returns None and crawl_url returns
FetchFails ==
    \E t \in tasks :
        /\ fetch_failed' = TRUE
        /\ Release(tasks \ {t})
        /\ UNCHANGED <<visited, found_urls, ready, returned, discovered>>
        /\ DiscFrame

\* the "for tag in soup.find_all" loop of crawl_url from the i-th anchor on:
\* the found-set and the coroutines spawned, in spawning order
RECURSIVE LinkLoop(_, _, _, _, _)
LinkLoop(url, hrefs, i, found, spawned) ==
    IF i > Len(hrefs) \/ CapReached(found)
    THEN [found |-> found, spawned |-> spawned]
    ELSE LET href == Strip(hrefs[i])
             new_url == normalize_url(url, href)
             found2 == found \cup {new_url}
         IN  IF Unusable(href) \/ ~InAllowedDomain(new_url, allowed_domain)
             THEN LinkLoop(url, hrefs, i + 1, found, spawned)
             ELSE LinkLoop(url, hrefs, i + 1, found2,
                           IF new_url \notin visited /\ ~CapReached(found2)
                           THEN Append(spawned, new_url) ELSE spawned)

\* fetch returns the page's text, crawl_url collects its links
FetchBody ==
    \E t \in tasks :
        /\ t.pc = "text"
        /\ LET r == LinkLoop(t.url, PageOf(site, t.url).hrefs, 1, found_urls, <<>>)
           IN  /\ found_urls' = r.found
               /\ ready' = ready \o r.spawned
        /\ Release(tasks \ {t})
        /\ UNCHANGED <<visited, fetch_failed, returned, discovered>>
        /\ DiscFrame

\* discover: every coroutine has returned; the found-set is the result
\* (its members, which the code returns in sorted order)
Discovered ==
    /\ ~returned
    /\ ready = <<>> /\ waiters = <<>> /\ tasks = {}
    /\ returned' = TRUE
    /\ discovered' = found_urls
    /\ UNCHANGED <<visited, found_urls, ready, waiters, tasks, holders,
                   fetch_failed>>
    /\ DiscFrame

NextDiscovery ==
    \/ CrawlSkip
    \/ CrawlBegin
    \/ CrawlBeginWait
    \/ FetchNonHtml
    \/ FetchHtmlHeaders
    \/ FetchFails
    \/ FetchBody
    \/ Discovered

InitDiscovery ==
    /\ InitJobs /\ NewDiscovery /\ IdleFunctions /\ IdleCrawler /\ IdleIndexing
    /\ IdleChecks

SpecDiscovery == InitDiscovery /\ [][NextDiscovery]_vars

\* every request ends, with a response or with the 10 s timeout of
\* session.get, and the event loop runs every coroutine that is ready, so a
\* step of the call that stays possible is taken
SpecDiscoveryLive == SpecDiscovery /\ WF_vars(NextDiscovery)

(***************************************************************************)
(* The URL rules of the fetcher (async_crawler.py), the only place where   *)
(* the exclusion patterns and the fragment/trailing-slash normalisation    *)
(* exist in the code.                                                      *)
(***************************************************************************)
\* skip_patterns without "$": matched anywhere in the URL
SkipAnywhere ==
    {"/login", "/logout", "/signin", "/signup", "/admin", "/api/", "/wp-admin",
     "/print/", "/download/", "?share=", "?print=", "?replytocom="}

\* skip_patterns with "$": matched at the end of the URL
SkipAtEnd ==
    {".pdf", ".jpg", ".jpeg", ".png", ".gif", ".svg", ".webp", ".ico", ".bmp",
     ".mp4", ".avi", ".mov", ".wmv", ".flv", ".webm", ".mkv",
     ".mp3", ".wav", ".ogg", ".m4a", ".flac", ".aac",
     ".doc", ".docx", ".xls", ".xlsx", ".ppt", ".pptx",
     ".css", ".js", ".xml", ".json",
     ".zip", ".tar", ".gz", ".rar", ".7z"}

\* re.search(pattern, url.lower()) for some skip pattern
Excluded(url) ==
    \/ \E p \in SkipAnywhere : Contains(Lower(url), p)
    \/ \E p \in SkipAtEnd : EndsWith(Lower(url), p)

\* the host test of is_valid_url
HostInDomain(url, domain) ==
    Netloc(url) = domain \/ EndsWith(Netloc(url), "." \o domain)

\* AsyncCrawler.is_valid_url
is_valid_url(url, domain) == HostInDomain(url, domain) /\ ~Excluded(url)

\* str.rstrip('/')
RECURSIVE RStripSlash(_)
RStripSlash(s) ==
    IF s # "" /\ EndsWith(s, "/") THEN RStripSlash(SubSeq(s, 1, Len(s) - 1))
    ELSE s

\* urlunparse(urlparse(u)) of a URL u without fragment: the scheme comes
\* back in lower case, an empty query loses its "?" and empty parameters
\* lose their ";"
Reassemble(u) ==
    LET q == Find(u, "?")
        head == IF q > 0 THEN SubSeq(u, 1, q - 1) ELSE u
        query == IF q > 0 THEN SubSeq(u, q + 1, Len(u)) ELSE ""
        seg == SubSeq(head, LastOf(head, "/") + 1, Len(head))
        path == IF /\ Find(seg, ";") = Len(seg) /\ seg # ""
                   /\ Contains(head, "://") => Contains(AfterScheme(head), "/")
                THEN SubSeq(head, 1, Len(head) - 1) ELSE head
        low == IF Contains(path, "://")
               THEN Lower(Scheme(path)) \o SubSeq(path, Find(path, "://"), Len(path))
               ELSE path
    IN  IF query = "" THEN low ELSE low \o "?" \o query

\* urldefrag(url)[0]: a URL without "#" comes back as it is, any other is
\* parsed, stripped of its fragment and put together again
Defrag(url) ==
    IF Contains(url, "#")
    THEN Reassemble(SubSeq(url, 1, Find(url, "#") - 1))
    ELSE url

\* AsyncCrawler.normalize_url
crawler_normalize_url(url) == RStripSlash(Defrag(url))

(***************************************************************************)
(* Claims about URL discovery.                                             *)
(***************************************************************************)
\* C7: discover never returns more than max_urls URLs and the found-set
\* never holds more than max_urls entries at any point of a run.
C7_FoundWithinMaxUrls ==
    /\ Cardinality(found_urls) <= max_urls
    /\ returned => Cardinality(discovered) <= max_urls

\* C8: every URL returned by discover has a host that equals the target
\* domain or is a subdomain of it (a host that merely ends with the domain's
\* text is not accepted) and matches no exclusion pattern, seeds included.
C8_ResultInDomainNotExcluded ==
    returned =>
        \A u \in discovered :
            HostInDomain(u, allowed_domain) /\ ~Excluded(u)

\* what C9 expects of a run: the seeds plus every link reachable from them
\* through HTML pages that is usable, in the domain and not excluded
RECURSIVE Reachable(_, _)
Reachable(s, S) ==
    LET links(pg) ==
            {normalize_url(pg, Strip(PageOf(s, pg).hrefs[i])) :
                i \in {k \in DOMAIN PageOf(s, pg).hrefs :
                          ~Unusable(Strip(PageOf(s, pg).hrefs[k]))}}
        next == S \cup UNION {{u \in links(pg) : is_valid_url(u, allowed_domain)} :
                                 pg \in {q \in S : IsHtml(PageOf(s, q).ctype)}}
    IN  IF next = S THEN S ELSE Reachable(s, next)

\* C9: when no fetch fails and max_urls is not reached, discover returns
\* exactly the seeds plus every same-domain, non-excluded link reachable from
\* them; the root page that links to 3 same-domain HTML pages, 1 PDF and 1
\* external page yields exactly 4 URLs, without the PDF and the external link.
C9_ResultIsReachableSet ==
    (returned /\ ~fetch_failed /\ Cardinality(found_urls) < max_urls) =>
        /\ discovered = Reachable(site, {seed_urls[i] : i \in DOMAIN seed_urls})
        /\ (site = "e2e" /\ seed_urls = <<"https://ex.com/">>) =>
              discovered = {"https://ex.com/", "https://ex.com/a",
                            "https://ex.com/b", "https://ex.com/c"}

\* C10: every URL of the discovery result carries no fragment and no
\* trailing slash, and no page appears twice under spellings that differ only
\* by a fragment or a trailing slash.
C10_ResultNormalized ==
    returned =>
        /\ \A u \in discovered : ~Contains(u, "#") /\ ~EndsWith(u, "/")
        /\ \A u, v \in discovered :
              crawler_normalize_url(u) = crawler_normalize_url(v) => u = v

(***************************************************************************)
(* Functions without state: the two normalize_url methods and the          *)
(* namespace that ingest derives from the root URL.                        *)
(***************************************************************************)
\* s.replace(old, new)
RECURSIVE Replace(_, _, _)
Replace(s, old, new) ==
    IF Len(s) < Len(old) THEN s
    ELSE IF SubSeq(s, 1, Len(old)) = old
         THEN new \o Replace(SubSeq(s, Len(old) + 1, Len(s)), old, new)
         ELSE SubSeq(s, 1, 1) \o Replace(Tail(s), old, new)

\* ingest: domain = urlparse(url).netloc.replace('www.', '')
DomainOf(url) == Replace(Netloc(url), "www.", "")

\* ingest: namespace = domain.replace('.', '_')
NamespaceOf(url) == Replace(DomainOf(url), ".", "_")

\* the URLs the fetcher's normalize_url is called with: pages with and
\* without query, parameters, trailing slashes and fragments
CrawlerURLs ==
    {b \o t \o f :
        b \in {"http://a", "http://a/p", "HTTP://a/p", "http://a/p/q",
               "http://a/p?", "http://a/p?x=1", "http://a/p;"},
        t \in {"", "/", "//"},
        f \in {"", "#", "#f", "#f/"}}

\* the page discovery's normalize_url is called on
DiscoveryBase == "https://ex.com/d/"

\* the hrefs discovery's normalize_url is called with on that page
DiscoveryHrefs ==
    {"p", "p/", "p#f", "p/#f", "/p", "/p/", "/p#f", "https://ex.com/p",
     "https://ex.com/p/", "https://ex.com/p#f", "a b", "//ex.com/p",
     "//ex.com/p/", "x//y", ""}

\* the root URLs ingest is called with (app.py lets through what starts with
\* http:// or https://)
RootURLs ==
    {sch \o w \o h \o tld \o port \o path :
        sch \in {"http://", "https://"},
        w \in {"", "www.", "WWW.", "www.www."},
        h \in {"ex", "Ex", "awww.ex", "sub.ex"},
        tld \in {".com", ".COM"},
        port \in {"", ":8080"},
        path \in {"", "/", "/a.b"}}

\* AsyncCrawler.normalize_url(url) is called
CallCrawlerNormalize ==
    /\ \E u \in CrawlerURLs :
        /\ fn_call' = [fn |-> "crawler.normalize_url", args |-> <<u>>]
        /\ fn_ret' = crawler_normalize_url(u)
    /\ UNCHANGED notFnVars

\* AsyncCrawler.normalize_url is called on what it returned
CallCrawlerNormalizeAgain ==
    /\ fn_call.fn = "crawler.normalize_url"
    /\ fn_call' = [fn |-> "crawler.normalize_url", args |-> <<fn_ret>>]
    /\ fn_ret' = crawler_normalize_url(fn_ret)
    /\ UNCHANGED notFnVars

\* AsyncURLDiscovery.normalize_url(base, url) is called
CallDiscoveryNormalize ==
    /\ \E h \in DiscoveryHrefs :
        /\ fn_call' = [fn |-> "discovery.normalize_url",
                       args |-> <<DiscoveryBase, h>>]
        /\ fn_ret' = normalize_url(DiscoveryBase, h)
    /\ UNCHANGED notFnVars

\* AsyncURLDiscovery.normalize_url is called on what it returned
CallDiscoveryNormalizeAgain ==
    /\ fn_call.fn = "discovery.normalize_url"
    /\ fn_call' = [fn |-> "discovery.normalize_url",
                   args |-> <<fn_call.args[1], fn_ret>>]
    /\ fn_ret' = normalize_url(fn_call.args[1], fn_ret)
    /\ UNCHANGED notFnVars

\* ingest(url) computes its namespace
CallNamespace ==
    /\ \E u \in RootURLs :
        /\ fn_call' = [fn |-> "namespace", args |-> <<u>>]
        /\ fn_ret' = NamespaceOf(u)
    /\ UNCHANGED notFnVars

InitFunctions == InitJobs /\ IdleRest

NextFunctions ==
    \/ CallCrawlerNormalize
    \/ CallCrawlerNormalizeAgain
    \/ CallDiscoveryNormalize
    \/ CallDiscoveryNormalizeAgain
    \/ CallNamespace

SpecFunctions == InitFunctions /\ [][NextFunctions]_vars

(***************************************************************************)
(* Claims about the functions without state.                               *)
(***************************************************************************)
\* the call of the state, made once more on the arguments args
Recompute(args) ==
    IF fn_call.fn = "crawler.normalize_url"
    THEN crawler_normalize_url(args[1])
    ELSE normalize_url(args[1], args[2])

\* the URL argument of a normalize_url call
UrlArg(args) == args[Len(args)]

\* the argument lists that differ from args only in the URL, and there only
\* by a fragment or only by one trailing slash
Respellings(args) ==
    LET cut(u) == SubSeq(u, 1, FirstOf(u, {"#"}) - 1)
        pool == IF fn_call.fn = "crawler.normalize_url"
                THEN {<<v>> : v \in CrawlerURLs}
                ELSE {<<DiscoveryBase, h>> : h \in DiscoveryHrefs}
    IN  {a \in pool :
            \/ cut(UrlArg(a)) = cut(UrlArg(args))
            \/ UrlArg(a) = UrlArg(args) \o "/"
            \/ UrlArg(args) = UrlArg(a) \o "/"}

\* C11: URL normalization is idempotent, and two URLs that differ only by a
\* fragment or only by a trailing slash normalize to the same string.
C11_NormalizeIdempotentMerging ==
    fn_call.fn \in {"crawler.normalize_url", "discovery.normalize_url"} =>
        /\ Recompute(IF Len(fn_call.args) = 1 THEN <<fn_ret>>
                     ELSE <<fn_call.args[1], fn_ret>>) = fn_ret
        /\ \A a \in Respellings(fn_call.args) : Recompute(a) = fn_ret

\* the host of C18's namespace: lower case, without a leading "www."
CanonicalHost(host) ==
    IF StartsWith(Lower(host), "www.")
    THEN SubSeq(Lower(host), 5, Len(host)) ELSE Lower(host)

\* C18: the namespace is the root URL's host in lower case, without its www.
\* prefix, every dot replaced by an underscore and nothing else altered;
\* hosts that differ only in letter case or in a leading www. get the same
\* namespace.
C18_NamespaceOfHost ==
    fn_call.fn = "namespace" =>
        /\ fn_ret = Replace(CanonicalHost(Netloc(fn_call.args[1])), ".", "_")
        /\ \A v \in RootURLs :
              CanonicalHost(Netloc(v)) = CanonicalHost(Netloc(fn_call.args[1]))
                  => NamespaceOf(v) = fn_ret

(***************************************************************************)
(* Content extraction (async_crawler.py).  fetch_and_parse runs without    *)
(* interruption between two awaits that suspend: its "async with           *)
(* self.lock" blocks hold no await, so the lock is always free when a      *)
(* coroutine asks for it and each block is part of the step around it.     *)
(* What the server answers is drawn from the possible answers.             *)
(***************************************************************************)
\* self.max_errors (100 in the code), scaled down
MaxErrors == 2

\* largest max_pages of a run
MaxPagesBound == 3

\* asyncio.Semaphore(concurrency) (20 in ingest's call), scaled down
CrawlerConcurrency == 2

\* fetch_and_parse: "len(text) > 1_000_000 or len(text) < 100"
MAX_TEXT_LEN == 1000000

MIN_TEXT_LEN == 100

\* the lengths of the texts extracted from the pages
TextLens == {99, 100, 1000000, 1000001}

\* crawl_urls_async(urls, base_url): base_url
base_url == "https://ex.com/"

\* AsyncRecursiveCrawler.domain
crawler_domain == Netloc(base_url)

\* the URL lists crawl_urls is called with
UrlLists ==
    {<<"https://ex.com/p", "https://ex.com/p/">>,
     <<"https://ex.com/p", "https://ex.com/q", "https://ex.com/p#top">>,
     <<"https://ex.com/p", "https://ex.com/doc.pdf", "https://other.org/",
       "https://ex.com/q", "https://ex.com/r", "https://ex.com/s">>}

\* AsyncRecursiveCrawler.__init__ and the call of start_async(urls)
NewCrawler ==
    /\ urls \in UrlLists
    /\ max_pages \in {1, MaxPagesBound}
    /\ crawler_visited = {}
    /\ documents = <<>>
    /\ error_count = 0
    /\ pending = <<>>
    /\ sem_queue = <<>>
    /\ fetching = {}
    /\ sem_held = 0
    /\ requests = <<>>
    /\ outcome = <<>>
    /\ crawl_result = [phase |-> "new", documents |-> <<>>]

CrawlerFrame == UNCHANGED <<urls, max_pages, notCrawlerVars>>

\* crawl_urls: the loop that builds the list of coroutines, from the i-th URL
RECURSIVE Gather(_, _)
Gather(i, acc) ==
    IF i > Len(urls) \/ Len(documents) >= max_pages THEN acc
    ELSE LET url == crawler_normalize_url(urls[i]) IN
         IF is_valid_url(url, crawler_domain) /\ url \notin crawler_visited
         THEN Gather(i + 1, Append(acc, url))
         ELSE Gather(i + 1, acc)

\* crawl_urls up to "await asyncio.gather(*tasks)"
CrawlUrls ==
    /\ crawl_result.phase = "new"
    /\ pending' = Gather(1, <<>>)
    /\ crawl_result' = [crawl_result EXCEPT !.phase = "running"]
    /\ UNCHANGED <<crawler_visited, documents, error_count, sem_queue,
                   fetching, sem_held, requests, outcome>>
    /\ CrawlerFrame

\* fetch_and_parse: the test under the lock, without the error budget
AdmittedIgnoringErrors(url) ==
    ~(url \in crawler_visited \/ Len(documents) >= max_pages)

\* fetch_and_parse: the test under the lock; FALSE: return None
Admitted(url) ==
    ~(\/ url \in crawler_visited
      \/ Len(documents) >= max_pages
      \/ error_count >= MaxErrors)

\* fetch_and_parse without "self.visited.add(url)"
MarkVisited_forgotten(url) == crawler_visited

\* fetch_and_parse: self.visited.add(url)
MarkVisited(url) == crawler_visited \cup {url}

\* a skipped call that counts as an error
WorkerSkip_counted ==
    /\ pending # <<>>
    /\ ~Admitted(Head(pending))
    /\ pending' = Tail(pending)
    /\ error_count' = error_count + 1
    /\ UNCHANGED <<crawler_visited, documents, sem_queue,
                   fetching, sem_held, requests, outcome, crawl_result>>
    /\ CrawlerFrame

\* fetch_and_parse returns None at once
WorkerSkip ==
    /\ pending # <<>>
    /\ ~Admitted(Head(pending))
    /\ pending' = Tail(pending)
    /\ UNCHANGED <<crawler_visited, documents, error_count, sem_queue,
                   fetching, sem_held, requests, outcome, crawl_result>>
    /\ CrawlerFrame

\* fetch_and_parse without "async with self.semaphore"
WorkerBegin_unbounded ==
    /\ pending # <<>>
    /\ Admitted(Head(pending))
    /\ crawler_visited' = MarkVisited(Head(pending))
    /\ pending' = Tail(pending)
    /\ sem_held' = sem_held + 1
    /\ fetching' = fetching \cup {[url |-> Head(pending), pc |-> "get"]}
    /\ requests' = Append(requests, Head(pending))
    /\ UNCHANGED <<documents, error_count, sem_queue, outcome, crawl_result>>
    /\ CrawlerFrame

\* fetch_and_parse marks the URL, gets the semaphore and calls session.get
WorkerBegin ==
    /\ pending # <<>>
    /\ Admitted(Head(pending))
    /\ sem_held < CrawlerConcurrency
    /\ crawler_visited' = MarkVisited(Head(pending))
    /\ pending' = Tail(pending)
    /\ sem_held' = sem_held + 1
    /\ fetching' = fetching \cup {[url |-> Head(pending), pc |-> "get"]}
    /\ requests' = Append(requests, Head(pending))
    /\ UNCHANGED <<documents, error_count, sem_queue, outcome, crawl_result>>
    /\ CrawlerFrame

\* fetch_and_parse marks the URL and has to wait for the semaphore
WorkerBeginWait ==
    /\ pending # <<>>
    /\ Admitted(Head(pending))
    /\ sem_held >= CrawlerConcurrency
    /\ crawler_visited' = MarkVisited(Head(pending))
    /\ pending' = Tail(pending)
    /\ sem_queue' = Append(sem_queue, Head(pending))
    /\ UNCHANGED <<documents, error_count, fetching, sem_held, requests,
                   outcome, crawl_result>>
    /\ CrawlerFrame

\* leaving "async with self.semaphore": the longest waiting coroutine gets
\* the permit and calls session.get, else the permit is returned
ReleaseSemaphore(rest) ==
    IF sem_queue # <<>>
    THEN /\ fetching' = rest \cup {[url |-> Head(sem_queue), pc |-> "get"]}
         /\ requests' = Append(requests, Head(sem_queue))
         /\ sem_queue' = Tail(sem_queue)
         /\ sem_held' = sem_held
    ELSE /\ fetching' = rest
         /\ requests' = requests
         /\ sem_queue' = sem_queue
         /\ sem_held' = sem_held - 1

\* fetch_and_parse of t.url returns; kind says how, n is the text length
Ends(t, kind, n) ==
    /\ outcome' = Put(outcome, t.url, [kind |-> kind, text_len |-> n])
    /\ ReleaseSemaphore(fetching \ {t})
    /\ UNCHANGED <<crawler_visited, pending, crawl_result>>
    /\ CrawlerFrame

\* the answer's status is not 200: an error is counted
ResponseNot200 ==
    \E t \in fetching :
        /\ t.pc = "get"
        /\ error_count' = error_count + 1
        /\ documents' = documents
        /\ Ends(t, "status", 0)

\* the content type the answer must have
AcceptedTypes == {"text/html", "text/plain", "application/xhtml"}

\* the content types the servers answer with (lower case, as the code reads them)
ContentTypes ==
    {"text/html; charset=utf-8", "text/plain", "application/xhtml+xml",
     "application/pdf", ""}

\* fetch_and_parse: "any(t in content_type for t in [...])"
TypeAccepted(content_type) ==
    \E t \in AcceptedTypes : Contains(content_type, t)

\* a rejected content type counted as an error
AfterSkippedType_counted(errors) == errors + 1

\* error_count after a rejected content type: "return None" and no more
AfterSkippedType(errors) == errors

\* status 200 with another content type: skipped
ResponseOtherType ==
    \E t \in fetching : \E ct \in ContentTypes :
        /\ t.pc = "get"
        /\ ~TypeAccepted(ct)
        /\ error_count' = AfterSkippedType(error_count)
        /\ documents' = documents
        /\ Ends(t, "type", 0)

\* status 200 with an accepted content type: the body is awaited
ResponseAccepted ==
    \E t \in fetching : \E ct \in ContentTypes :
        /\ t.pc = "get"
        /\ TypeAccepted(ct)
        /\ fetching' = (fetching \ {t}) \cup {[t EXCEPT !.pc = "text"]}
        /\ UNCHANGED <<crawler_visited, documents, error_count, pending,
                       sem_queue, sem_held, requests, outcome, crawl_result>>
        /\ CrawlerFrame

\* session.get or response.text() raises (timeout, connection error, ...):
\* an error is counted
FetchRaises ==
    \E t \in fetching :
        /\ error_count' = error_count + 1
        /\ documents' = documents
        /\ Ends(t, "exception", 0)

\* parsing the body raises: an error is counted
ParseRaises ==
    \E t \in fetching :
        /\ t.pc = "text"
        /\ error_count' = error_count + 1
        /\ documents' = documents
        /\ Ends(t, "parse", 0)

\* the size test with its bounds excluded
InvalidSize_exclusive(n) == n >= MAX_TEXT_LEN \/ n <= MIN_TEXT_LEN

\* fetch_and_parse: "len(text) > 1_000_000 or len(text) < 100"
InvalidSize(n) == n > MAX_TEXT_LEN \/ n < MIN_TEXT_LEN

\* the extracted text is too short or too long: skipped
TextInvalidSize ==
    \E t \in fetching : \E n \in TextLens :
        /\ t.pc = "text"
        /\ InvalidSize(n)
        /\ UNCHANGED <<documents, error_count>>
        /\ Ends(t, "size", n)

\* the Document is appended
TextDocument ==
    \E t \in fetching : \E n \in TextLens :
        /\ t.pc = "text"
        /\ ~InvalidSize(n)
        /\ documents' = Append(documents, [source |-> t.url, text_len |-> n])
        /\ error_count' = error_count
        /\ Ends(t, "document", n)

\* gather is over: start_async returns self.documents
StartAsyncReturns ==
    /\ crawl_result.phase = "running"
    /\ pending = <<>> /\ sem_queue = <<>> /\ fetching = {}
    /\ crawl_result' = [phase |-> "done", documents |-> documents]
    /\ UNCHANGED <<crawler_visited, documents, error_count, pending,
                   sem_queue, fetching, sem_held, requests, outcome>>
    /\ CrawlerFrame

InitCrawler ==
    /\ InitJobs /\ IdleDiscovery /\ IdleFunctions /\ NewCrawler /\ IdleIndexing
    /\ IdleChecks

NextCrawler ==
    \/ CrawlUrls
    \/ WorkerSkip
    \/ WorkerBegin
    \/ WorkerBeginWait
    \/ ResponseNot200
    \/ ResponseOtherType
    \/ ResponseAccepted
    \/ FetchRaises
    \/ ParseRaises
    \/ TextInvalidSize
    \/ TextDocument
    \/ StartAsyncReturns

SpecCrawler == InitCrawler /\ [][NextCrawler]_vars

(***************************************************************************)
(* Claims about content extraction.                                        *)
(***************************************************************************)
\* C12: each URL is fetched at most once per run, whatever the interleaving
\* of the workers: no URL is requested twice.
C12_FetchedAtMostOnce ==
    \A i, j \in DOMAIN requests : requests[i] = requests[j] => i = j

\* C12 witness: the run that was handed /p twice (as /p and /p/) is over and
\* has requested it, once
C12_Witness ==
    /\ crawl_result.phase = "done"
    /\ urls = <<"https://ex.com/p", "https://ex.com/p/">>
    /\ requests = <<"https://ex.com/p">>

\* C13: once error_count has reached max_errors, a fetch_and_parse call that
\* starts returns without a request and without any other effect, and the
\* run is not aborted: start_async returns the Documents collected.
C13_BreakerSkipsQuietly ==
    /\ [][ (/\ pending # <<>>
            /\ error_count >= MaxErrors
            /\ pending' = Tail(pending))
           => (/\ requests' = requests
               /\ sem_queue' = sem_queue
               /\ crawler_visited' = crawler_visited
               /\ error_count' = error_count
               /\ documents' = documents) ]_vars
    /\ [](crawl_result.phase = "done" =>
            /\ crawl_result.documents = documents
            /\ \A u \in DOMAIN outcome :
                 outcome[u].kind = "document" =>
                    \E i \in DOMAIN documents : documents[i].source = u)

\* C13 witness: a run ended with the error budget used up, a URL that was
\* never requested although neither visited nor over max_pages, and a
\* Document collected before
C13_Witness ==
    /\ crawl_result.phase = "done"
    /\ error_count >= MaxErrors
    /\ Len(crawl_result.documents) > 0
    /\ Len(documents) < max_pages
    /\ \E i \in DOMAIN urls :
          /\ is_valid_url(crawler_normalize_url(urls[i]), crawler_domain)
          /\ \A k \in DOMAIN requests :
                requests[k] # crawler_normalize_url(urls[i])

\* C14: error_count is the number of admitted URLs whose fetch failed
\* (status other than 200, exception) or whose parse failed; a rejected
\* content type or text size adds nothing.
C14_ErrorsAreFailures ==
    error_count =
        Cardinality({u \in DOMAIN outcome :
                        outcome[u].kind \in {"status", "exception", "parse"}})

\* C14 witness: one URL rejected for its type, one for its size, one failed
C14_Witness ==
    /\ error_count = 1
    /\ \E u \in DOMAIN outcome : outcome[u].kind = "type"
    /\ \E u \in DOMAIN outcome : outcome[u].kind = "size"
    /\ \E u \in DOMAIN outcome : outcome[u].kind \in {"status", "exception", "parse"}

\* C15: every Document has a text of 100 to 1,000,000 characters, bounds
\* included; a text of another length is rejected and gets no Document.
C15_TextLengthBounds ==
    /\ \A i \in DOMAIN documents :
          documents[i].text_len >= 100 /\ documents[i].text_len <= 1000000
    /\ \A u \in DOMAIN outcome :
          /\ outcome[u].kind = "size" =>
                /\ outcome[u].text_len < 100 \/ outcome[u].text_len > 1000000
                /\ \A i \in DOMAIN documents : documents[i].source # u
          /\ outcome[u].kind = "document" =>
                \E i \in DOMAIN documents :
                    documents[i] = [source |-> u, text_len |-> outcome[u].text_len]

\* C15 witness: texts of 100 and of 1,000,000 characters were accepted, texts
\* of 99 and of 1,000,001 characters rejected
C15_Witness ==
    /\ \E i \in DOMAIN documents : documents[i].text_len = 100
    /\ \E i \in DOMAIN documents : documents[i].text_len = 1000000
    /\ \E u \in DOMAIN outcome : outcome[u] = [kind |-> "size", text_len |-> 99]
    /\ \E u \in DOMAIN outcome : outcome[u] = [kind |-> "size", text_len |-> 1000001]

(***************************************************************************)
(* Indexing: ingest.py 184-285 and what crawl_with_status does after it    *)
(* (app.py 96-102), for one job.  The run starts where ingest has set the  *)
(* stage 'indexing' (ingest.py 186); the position of the task is           *)
(* ingest_pc.  RecursiveCharacterTextSplitter, HuggingFaceEmbeddings and   *)
(* PineconeVectorStore are libraries: how many chunks a Document is cut    *)
(* into, and whether a call raises, is chosen freely.                      *)
(***************************************************************************)
\* Documents crawl_urls_async returns to the job
MaxDocs == 2

\* chunks the splitter cuts one Document into
MaxParts == 2

\* config.py INGESTION_BATCH_SIZE (50), scaled down
INGESTION_BATCH_SIZE == 2

RECURSIVE Repeat(_, _)
\* Python's s * n
Repeat(s, n) == IF n = 0 THEN "" ELSE s \o Repeat(s, n - 1)

\* the text of a page: 108 characters
Body == Repeat("lorem ipsum ", 9)

\* page texts; the second page quotes a URL at its end
PageTexts == {Body, Body \o "https://ex.com/a"}

\* metadata['source'] of a Document: the URL it was fetched from
PageSources == {"https://ex.com/b", "https://ex.com/ahttps://ex.com/b"}

\* async_crawler.py 139-148: Document(page_content=text, metadata={"source": url, ...})
Document(text, source) == [page_content |-> text, source |-> source]

\* what crawl_urls_async can return: at least one Document (ingest.py 175)
DocLists ==
    UNION {[1..n -> {Document(t, u) : t \in PageTexts, u \in PageSources}] :
              n \in 1..MaxDocs}

\* the job whose indexing is followed
IndexingUrl == "https://ex.com/"

IndexingId == CrawlId(IndexingUrl, 1)

\* the job, accepted at second 1, has reached ingest.py 186
NewIndexing ==
    /\ docs \in DocLists
    /\ crawl_status =
          Put(<<>>, IndexingId,
              [NewRecord(IndexingUrl) EXCEPT !.stage = "indexing",
                                             !.pages_crawled = Len(docs)])
    /\ order = <<IndexingId>>
    /\ clock = 1
    /\ threads = <<[NewThread(IndexingUrl, IndexingId) EXCEPT !.pc = "split"]>>
    /\ issued = {IndexingId}
    /\ resp = NoResp
    /\ listing = NoListing
    /\ ingest_pc = "dedup"
    /\ unique_docs = <<>>
    /\ split_docs = <<>>
    /\ batch_i = 0
    /\ indexed_count = 0
    /\ failed_batches = <<>>
    /\ attempts = <<>>

\* docs is not assigned again before line 212, where it becomes split_docs
IndexFrame == UNCHANGED <<docs, notIndexVars>>

\* calculate_doc_hash: the md5 digest of page_content + source, written as
\* the string that is digested (two digests are equal iff the strings are)
calculate_doc_hash(doc) == doc.page_content \o doc.source

RECURSIVE Dedup(_, _, _)
\* ingest.py 190-196: the loop over docs, with seen_hashes and unique_docs
Dedup(ds, seen_hashes, unique) ==
    IF ds = <<>> THEN unique
    ELSE LET doc_hash == calculate_doc_hash(Head(ds))
         IN  IF doc_hash \in seen_hashes
             THEN Dedup(Tail(ds), seen_hashes, unique)
             ELSE Dedup(Tail(ds), seen_hashes \cup {doc_hash},
                        Append(unique, Head(ds)))

\* ingest.py 188-198
Deduplicate ==
    /\ ingest_pc = "dedup"
    /\ unique_docs' = Dedup(docs, {}, <<>>)
    /\ ingest_pc' = "split"
    /\ UNCHANGED <<crawl_status, split_docs, batch_i, indexed_count,
                   failed_batches, attempts>>
    /\ IndexFrame

RECURSIVE Chunks(_, _, _)
\* split_documents: the chunks of the Documents from the k-th on, in order;
\* parts[k] is the number of chunks of the k-th Document
Chunks(ds, parts, k) ==
    IF k > Len(ds) THEN <<>>
    ELSE [p \in 1..parts[k] |->
            [source |-> ds[k].source, parent |-> k, part |-> p]]
         \o Chunks(ds, parts, k + 1)

\* ingest.py 202-212
Split ==
    /\ ingest_pc = "split"
    /\ \E parts \in [1..Len(unique_docs) -> 1..MaxParts] :
          split_docs' = Chunks(unique_docs, parts, 1)
    /\ ingest_pc' = "load"
    /\ UNCHANGED <<crawl_status, unique_docs, batch_i, indexed_count,
                   failed_batches, attempts>>
    /\ IndexFrame

\* ingest.py 220-230: the embedding model is loaded
LoadEmbeddings ==
    /\ ingest_pc = "load"
    /\ indexed_count' = 0
    /\ failed_batches' = <<>>
    /\ batch_i' = 0
    /\ ingest_pc' = "batch"
    /\ UNCHANGED <<crawl_status, unique_docs, split_docs, attempts>>
    /\ IndexFrame

\* ingest.py 220 raises, app.py 100-102
LoadEmbeddingsRaises ==
    /\ ingest_pc = "load"
    /\ crawl_status' = [crawl_status EXCEPT ![IndexingId].status = "failed",
                                            ![IndexingId].error = "exception"]
    /\ ingest_pc' = "failed"
    /\ UNCHANGED <<unique_docs, split_docs, batch_i, indexed_count,
                   failed_batches, attempts>>
    /\ IndexFrame

\* ingest.py 223
total_batches ==
    (Len(split_docs) + INGESTION_BATCH_SIZE - 1) \div INGESTION_BATCH_SIZE

\* a slice that reaches one chunk into the next batch
Batch_overrun(ds, i) ==
    SubSeq(ds, i + 1, Min(i + INGESTION_BATCH_SIZE + 1, Len(ds)))

\* ingest.py 233: docs[i:i + INGESTION_BATCH_SIZE]
Batch(ds, i) == SubSeq(ds, i + 1, Min(i + INGESTION_BATCH_SIZE, Len(ds)))

\* ingest.py 234
batch_num(i) == (i \div INGESTION_BATCH_SIZE) + 1

\* the batch handed to PineconeVectorStore.from_documents (ingest.py 240)
Attempt(ok) ==
    [batch_num |-> batch_num(batch_i), first |-> batch_i,
     batch |-> Batch(split_docs, batch_i), ok |-> ok]

\* ingest.py 232-252: the batch is indexed
IndexBatchOk ==
    /\ ingest_pc = "batch"
    /\ batch_i < Len(split_docs)
    /\ attempts' = Append(attempts, Attempt(TRUE))
    /\ indexed_count' = indexed_count + Len(Batch(split_docs, batch_i))
    /\ crawl_status' =
          [crawl_status EXCEPT ![IndexingId].pages_indexed = indexed_count']
    /\ batch_i' = batch_i + INGESTION_BATCH_SIZE
    /\ UNCHANGED <<ingest_pc, unique_docs, split_docs, failed_batches>>
    /\ IndexFrame

\* the loop left at the first failure
AfterFailure_abandoned(i) == Len(split_docs)

\* ingest.py 232, 254-260: the except clause ends the iteration, and the
\* loop goes on with the next i
AfterFailure(i) == i + INGESTION_BATCH_SIZE

\* ingest.py 232-246, 254-260: from_documents raises
IndexBatchFails ==
    /\ ingest_pc = "batch"
    /\ batch_i < Len(split_docs)
    /\ attempts' = Append(attempts, Attempt(FALSE))
    /\ failed_batches' = Append(failed_batches, batch_num(batch_i))
    /\ crawl_status' = [crawl_status EXCEPT ![IndexingId].errors = @ + 1]
    /\ batch_i' = AfterFailure(batch_i)
    /\ UNCHANGED <<ingest_pc, unique_docs, split_docs, indexed_count>>
    /\ IndexFrame

\* ingest.py 271-285: the loop is over
IngestReturns ==
    /\ ingest_pc = "batch"
    /\ batch_i >= Len(split_docs)
    /\ crawl_status' =
          [crawl_status EXCEPT
              ![IndexingId].stage = "completed",
              ![IndexingId].result =
                  [kind |-> "indexed", total |-> Len(split_docs),
                   indexed |-> indexed_count,
                   failed |-> Len(failed_batches)]]
    /\ ingest_pc' = "returned"
    /\ UNCHANGED <<unique_docs, split_docs, batch_i, indexed_count,
                   failed_batches, attempts>>
    /\ IndexFrame

\* app.py 97-99 (line 99 stores the result ingest has stored already)
JobCompleted ==
    /\ ingest_pc = "returned"
    /\ crawl_status' = [crawl_status EXCEPT ![IndexingId].status = "completed",
                                            ![IndexingId].completed_at = TRUE]
    /\ ingest_pc' = "completed"
    /\ UNCHANGED <<unique_docs, split_docs, batch_i, indexed_count,
                   failed_batches, attempts>>
    /\ IndexFrame

InitIndexing ==
    NewIndexing /\ IdleDiscovery /\ IdleFunctions /\ IdleCrawler /\ IdleChecks

NextIndexing ==
    \/ Deduplicate
    \/ Split
    \/ LoadEmbeddings
    \/ LoadEmbeddingsRaises
    \/ IndexBatchOk
    \/ IndexBatchFails
    \/ IngestReturns
    \/ JobCompleted

SpecIndexing == InitIndexing /\ [][NextIndexing]_vars

(***************************************************************************)
(* Claims about the indexing.                                              *)
(***************************************************************************)
RECURSIVE FirstOccurrences(_, _)
\* ds without the elements that occurred before: the first occurrence of
\* each element, in the order of ds (k: the next position)
FirstOccurrences(ds, k) ==
    IF k > Len(ds) THEN <<>>
    ELSE (IF \E j \in 1..(k - 1) : ds[j] = ds[k] THEN <<>> ELSE <<ds[k]>>)
         \o FirstOccurrences(ds, k + 1)

\* C16: the deduplication keeps, of each (text, source) pair, the first
\* occurrence and nothing else, in the order of the input: the output is no
\* longer than the input, has no pair twice, and has every pair of the input.
C16_DedupKeepsFirstOfEachPair ==
    ingest_pc \notin {"idle", "dedup"} =>
        /\ Len(unique_docs) <= Len(docs)
        /\ \A a, b \in DOMAIN unique_docs :
              unique_docs[a] = unique_docs[b] => a = b
        /\ \A k \in DOMAIN docs :
              \E a \in DOMAIN unique_docs : unique_docs[a] = docs[k]
        /\ unique_docs = FirstOccurrences(docs, 1)

\* the loop of ingest.py 232 is over
LoopOver == ingest_pc \in {"returned", "completed"}

\* the least k with k * b >= n
Ceil(n, b) == CHOOSE k \in 0..n : k * b >= n /\ (k - 1) * b < n

\* C19: the batches are consecutive slices of the chunk list, in order:
\* each has 1 to batchSize chunks, each but the last has batchSize, every
\* chunk is in exactly one batch, and there are ceil(chunks / batchSize).
C19_BatchesPartitionChunks ==
    /\ \A k \in DOMAIN attempts :
          LET a == attempts[k]
              before == IF k = 1 THEN 0
                        ELSE attempts[k - 1].first + Len(attempts[k - 1].batch)
          IN  /\ a.first = before
              /\ Len(a.batch) >= 1 /\ Len(a.batch) <= INGESTION_BATCH_SIZE
              /\ a.first + Len(a.batch) <= Len(split_docs)
              /\ a.batch = SubSeq(split_docs, a.first + 1, a.first + Len(a.batch))
              /\ Len(a.batch) < INGESTION_BATCH_SIZE =>
                    a.first + Len(a.batch) = Len(split_docs)
    /\ LoopOver =>
          /\ attempts # <<>>
          /\ attempts[Len(attempts)].first + Len(attempts[Len(attempts)].batch)
                = Len(split_docs)
          /\ Len(attempts) = Ceil(Len(split_docs), INGESTION_BATCH_SIZE)
          /\ Len(attempts) = total_batches

\* C19 witness: the loop is over, with a full batch and a smaller last one
C19_Witness ==
    /\ LoopOver
    /\ Len(attempts) >= 2
    /\ Len(attempts[1].batch) = INGESTION_BATCH_SIZE
    /\ Len(attempts[Len(attempts)].batch) < INGESTION_BATCH_SIZE

RECURSIVE FailedAttempts(_)
\* the numbers of the attempts that failed, in order (k: the next attempt)
FailedAttempts(k) ==
    IF k > Len(attempts) THEN <<>>
    ELSE (IF attempts[k].ok THEN <<>> ELSE <<attempts[k].batch_num>>)
         \o FailedAttempts(k + 1)

\* C20: batches 1, 2, ... are each attempted once, in order, whether or not
\* earlier ones failed; when the loop is over every batch was attempted; the
\* failed ones are recorded by number and counted in the job's errors, one
\* each; the job is never failed once a batch was attempted, its error field
\* stays unset, and it ends completed.
C20_FailedBatchDoesNotStop ==
    /\ \A k \in DOMAIN attempts : attempts[k].batch_num = k
    /\ LoopOver =>
          Len(attempts) = Ceil(Len(split_docs), INGESTION_BATCH_SIZE)
    /\ failed_batches = FailedAttempts(1)
    /\ ingest_pc # "idle" =>
          crawl_status[IndexingId].errors = Len(FailedAttempts(1))
    /\ attempts # <<>> =>
          /\ crawl_status[IndexingId].status # "failed"
          /\ crawl_status[IndexingId].error = ""
    /\ ingest_pc = "completed" =>
          /\ crawl_status[IndexingId].status = "completed"
          /\ crawl_status[IndexingId].stage = "completed"

\* C20 witness: the first batch failed, the second was indexed, and the job
\* is completed
C20_Witness ==
    /\ ingest_pc = "completed"
    /\ Len(attempts) >= 2
    /\ ~attempts[1].ok
    /\ attempts[2].ok
    /\ crawl_status[IndexingId].errors = 1

(***************************************************************************)
(* The existing-document check: ingest.py 100-136 with                     *)
(* check_existing_documents (ingest.py 23-61), for one job.  The Pinecone  *)
(* namespace is a set of sources; similarity_search(url, k=1,              *)
(* filter={"source": url}) has a result iff url is one of them, or raises. *)
(***************************************************************************)
\* URLs discovery can return to the job
MaxCandidates == 3

\* the sample urls[:100] of check_existing_documents, scaled down
SampleLimit == 2

\* the i-th URL of the site, in sorted order
Candidate(i) == "https://ex.com/p" \o ToString(i)

RECURSIVE SortedList(_, _)
\* sorted(found_urls) for the found-set {Candidate(i) : i \in S}, from the
\* i-th URL on
SortedList(S, i) ==
    IF i > MaxCandidates THEN <<>>
    ELSE (IF i \in S THEN <<Candidate(i)>> ELSE <<>>) \o SortedList(S, i + 1)

\* ingest.py 94-102: discover_urls has returned, check_existing_documents
\* is called
NewPrecheck ==
    /\ \E S \in SUBSET (1..MaxCandidates) : discovered_urls = SortedList(S, 1)
    /\ \E S \in SUBSET (1..MaxCandidates) :
          index_sources = {Candidate(i) : i \in S}
    /\ precheck_pc = "client"
    /\ sample_i = 0
    /\ existing_urls = {}
    /\ client_failed = FALSE
    /\ queried = <<>>
    /\ query_failed = {}
    /\ to_fetch = <<>>

PrecheckFrame == UNCHANGED <<index_sources, notPrecheckVars>>

\* ingest.py 34-44: the embeddings and the vector store are set up
ClientReady ==
    /\ precheck_pc = "client"
    /\ existing_urls' = {}
    /\ precheck_pc' = "query"
    /\ UNCHANGED <<discovered_urls, sample_i, client_failed, queried,
                   query_failed, to_fetch>>
    /\ PrecheckFrame

\* ingest.py 34-40 raises, 59-61: "return set()"
ClientRaises ==
    /\ precheck_pc = "client"
    /\ client_failed' = TRUE
    /\ existing_urls' = {}
    /\ precheck_pc' = "filter"
    /\ UNCHANGED <<discovered_urls, sample_i, queried, query_failed, to_fetch>>
    /\ PrecheckFrame

\* ingest.py 45: len(urls[:100])
SampleLen(us) == Min(Len(us), SampleLimit)

\* ingest.py 45: the URL the loop is at
SampleUrl == discovered_urls[sample_i + 1]

\* ingest.py 45-54: the query has a result
QueryFound ==
    /\ precheck_pc = "query"
    /\ sample_i < SampleLen(discovered_urls)
    /\ SampleUrl \in index_sources
    /\ queried' = Append(queried, SampleUrl)
    /\ existing_urls' = existing_urls \cup {SampleUrl}
    /\ sample_i' = sample_i + 1
    /\ UNCHANGED <<precheck_pc, discovered_urls, client_failed, query_failed,
                   to_fetch>>
    /\ PrecheckFrame

\* ingest.py 45-53: the query has no result
QueryEmpty ==
    /\ precheck_pc = "query"
    /\ sample_i < SampleLen(discovered_urls)
    /\ SampleUrl \notin index_sources
    /\ queried' = Append(queried, SampleUrl)
    /\ sample_i' = sample_i + 1
    /\ UNCHANGED <<precheck_pc, discovered_urls, existing_urls, client_failed,
                   query_failed, to_fetch>>
    /\ PrecheckFrame

\* a failed query taken for a hit
AfterQueryFailure_as_found(existing, url) == existing \cup {url}

\* ingest.py 55-56: "except: pass"
AfterQueryFailure(existing, url) == existing

\* ingest.py 45-52 raises, 55-56
QueryRaises ==
    /\ precheck_pc = "query"
    /\ sample_i < SampleLen(discovered_urls)
    /\ queried' = Append(queried, SampleUrl)
    /\ query_failed' = query_failed \cup {SampleUrl}
    /\ existing_urls' = AfterQueryFailure(existing_urls, SampleUrl)
    /\ sample_i' = sample_i + 1
    /\ UNCHANGED <<precheck_pc, discovered_urls, client_failed, to_fetch>>
    /\ PrecheckFrame

\* ingest.py 45, 58: the loop is over, "return existing"
SampleDone ==
    /\ precheck_pc = "query"
    /\ sample_i >= SampleLen(discovered_urls)
    /\ precheck_pc' = "filter"
    /\ UNCHANGED <<discovered_urls, sample_i, existing_urls, client_failed,
                   queried, query_failed, to_fetch>>
    /\ PrecheckFrame

\* ingest.py 105: [u for u in discovered_urls if u not in existing_urls]
NotExisting(us, existing) == SelectSeq(us, LAMBDA u : u \notin existing)

\* ingest.py 103-136: some URL is left; crawl_urls_async is called with
\* the URLs left
FilterThenExtract ==
    /\ precheck_pc = "filter"
    /\ NotExisting(discovered_urls, existing_urls) # <<>>
    /\ discovered_urls' = NotExisting(discovered_urls, existing_urls)
    /\ to_fetch' = discovered_urls'
    /\ precheck_pc' = "extract"
    /\ UNCHANGED <<sample_i, existing_urls, client_failed, queried,
                   query_failed>>
    /\ PrecheckFrame

\* ingest.py 103-115: no URL is left; ingest returns
FilterThenReturn ==
    /\ precheck_pc = "filter"
    /\ NotExisting(discovered_urls, existing_urls) = <<>>
    /\ discovered_urls' = <<>>
    /\ precheck_pc' = "returned"
    /\ UNCHANGED <<sample_i, existing_urls, client_failed, queried,
                   query_failed, to_fetch>>
    /\ PrecheckFrame

InitPrecheck ==
    /\ InitJobs /\ IdleDiscovery /\ IdleFunctions /\ IdleCrawler /\ IdleIndexing
    /\ NewPrecheck /\ IdleLimiter

NextPrecheck ==
    \/ ClientReady
    \/ ClientRaises
    \/ QueryFound
    \/ QueryEmpty
    \/ QueryRaises
    \/ SampleDone
    \/ FilterThenExtract
    \/ FilterThenReturn

SpecPrecheck == InitPrecheck /\ [][NextPrecheck]_vars

(***************************************************************************)
(* Claims about the existing-document check.                               *)
(***************************************************************************)
\* the elements of a sequence
Range(seq) == {seq[i] : i \in DOMAIN seq}

\* C21: the check queries at most the sample limit of URLs, each once; a
\* failed client setup leaves no URL marked as indexed, a failed query
\* leaves its URL unmarked; the job goes on: after a failed setup all
\* candidates, and after a failed query its URL, are handed to extraction.
C21_PrecheckFailuresKeepCandidates ==
    /\ [](/\ Len(queried) <= SampleLimit
          /\ \A a, b \in DOMAIN queried : queried[a] = queried[b] => a = b
          /\ client_failed => (existing_urls = {} /\ queried = <<>>)
          /\ \A u \in query_failed : u \notin existing_urls
          /\ precheck_pc \in {"extract", "returned"} =>
                /\ query_failed # {} => precheck_pc = "extract"
                /\ \A u \in query_failed : u \in Range(to_fetch))
    /\ [][(precheck_pc = "filter" /\ client_failed) =>
             /\ discovered_urls' = discovered_urls
             /\ discovered_urls # <<>> =>
                   (precheck_pc' = "extract" /\ to_fetch' = discovered_urls)]_vars

\* C21 witness: the query for a URL that is in the index failed, and the
\* URL was handed to extraction
C21_Witness ==
    /\ precheck_pc = "extract"
    /\ \E u \in query_failed : u \in index_sources /\ u \in Range(to_fetch)

\* C22: when nothing failed, no URL that is in the index under the job's
\* namespace is handed to the fetcher, however many candidates there are,
\* and the others are all handed over.
C22_IndexedNeverFetched ==
    (precheck_pc \in {"extract", "returned"} /\ ~client_failed
        /\ query_failed = {}) =>
            \A u \in Range(to_fetch) : u \notin index_sources

(***************************************************************************)
(* The rate limiter: rate_limiter.py.  Every method runs under self.lock   *)
(* from its first statement to its last, so a call is one step, whatever   *)
(* thread makes it.  time.time() is a count of ticks that never goes back. *)
(***************************************************************************)
\* RateLimiter.max_requests (config.py RATE_LIMIT_REQUESTS, 10), scaled down
MaxRequests == 2

\* RateLimiter.window_seconds (config.py RATE_LIMIT_WINDOW, 60), scaled down
WindowSeconds == 2

\* largest value of time.time()
MaxNow == 4

\* the keys callers use
LimiterKeys == {"k", "other"}

\* RateLimiter.__init__ at time 0
NewLimiter ==
    /\ limiter_requests = <<>>
    /\ limiter_now = 0
    /\ admitted = [key \in LimiterKeys |-> <<>>]
    /\ denied = {}
    /\ last_call = NoLimiterCall

LimiterFrame == UNCHANGED notLimiterVars

\* time passes
LimiterTick ==
    /\ limiter_now < MaxNow
    /\ limiter_now' = limiter_now + 1
    /\ UNCHANGED <<limiter_requests, admitted, denied, last_call>>
    /\ LimiterFrame

\* self.requests[key] of a defaultdict(list), read
RequestsOf(key) ==
    IF key \in DOMAIN limiter_requests THEN limiter_requests[key] ELSE <<>>

\* a window that also keeps the timestamps of age window_seconds
Recent_inclusive(timestamps, now) ==
    SelectSeq(timestamps, LAMBDA t : now - t <= WindowSeconds)

\* [t for t in timestamps if now - t < self.window_seconds]
Recent(timestamps, now) ==
    SelectSeq(timestamps, LAMBDA t : now - t < WindowSeconds)

\* a limit test that lets one request too many through
UnderLimit_inclusive(timestamps) == Len(timestamps) <= MaxRequests

\* len(self.requests[key]) < self.max_requests
UnderLimit(timestamps) == Len(timestamps) < MaxRequests

\* the record of a call
Called(op, key, allowed, remaining) ==
    [op |-> op, key |-> key, allowed |-> allowed,
     after_denial |-> (op = "is_allowed" /\ key \in denied),
     remaining |-> remaining, n |-> 1 - last_call.n]

\* the last max_requests + 1 times of a history
LastAdmitted(times) ==
    IF Len(times) <= MaxRequests + 1 THEN times ELSE Tail(times)

\* RateLimiter.is_allowed
is_allowed(key) ==
    LET recent == Recent(RequestsOf(key), limiter_now)
    IN  /\ IF UnderLimit(recent)
           THEN /\ limiter_requests' =
                      Put(limiter_requests, key, Append(recent, limiter_now))
                /\ admitted' =
                      [admitted EXCEPT ![key] = LastAdmitted(Append(@, limiter_now))]
                /\ denied' = denied \ {key}
                /\ last_call' = Called("is_allowed", key, TRUE, 0)
           ELSE /\ limiter_requests' = Put(limiter_requests, key, recent)
                /\ admitted' = admitted
                /\ denied' = denied \cup {key}
                /\ last_call' = Called("is_allowed", key, FALSE, 0)
        /\ UNCHANGED limiter_now
        /\ LimiterFrame

\* a count that is one short
RemainingQuota_short(timestamps) ==
    IF MaxRequests - Len(timestamps) - 1 > 0
    THEN MaxRequests - Len(timestamps) - 1 ELSE 0

\* max(0, self.max_requests - len(self.requests[key]))
RemainingQuota(timestamps) ==
    IF MaxRequests - Len(timestamps) > 0
    THEN MaxRequests - Len(timestamps) ELSE 0

\* RateLimiter.get_remaining
get_remaining(key) ==
    LET recent == Recent(RequestsOf(key), limiter_now)
    IN  /\ limiter_requests' = Put(limiter_requests, key, recent)
        /\ last_call' = Called("get_remaining", key, FALSE, RemainingQuota(recent))
        /\ UNCHANGED <<limiter_now, admitted, denied>>
        /\ LimiterFrame

\* a sweep that also removes the keys that are under the limit
Evicted_under_limit(timestamps) == Len(timestamps) < MaxRequests

\* "if not timestamps": the key is marked for removal
Evicted(timestamps) == timestamps = <<>>

\* RateLimiter.cleanup_old_keys
cleanup_old_keys ==
    LET kept == {key \in DOMAIN limiter_requests :
                    ~Evicted(Recent(limiter_requests[key], limiter_now))}
    IN  /\ limiter_requests' =
              [key \in kept |-> Recent(limiter_requests[key], limiter_now)]
        /\ last_call' = Called("cleanup_old_keys", "", FALSE, 0)
        /\ UNCHANGED <<limiter_now, admitted, denied>>
        /\ LimiterFrame

InitLimiter ==
    /\ InitJobs /\ IdleDiscovery /\ IdleFunctions /\ IdleCrawler /\ IdleIndexing
    /\ IdlePrecheck /\ NewLimiter

NextLimiter ==
    \/ LimiterTick
    \/ \E key \in LimiterKeys : is_allowed(key)
    \/ \E key \in LimiterKeys : get_remaining(key)
    \/ cleanup_old_keys

SpecLimiter == InitLimiter /\ [][NextLimiter]_vars

(***************************************************************************)
(* Claims about the rate limiter.                                          *)
(***************************************************************************)
\* the step is a call of op
CallStep(op) == last_call'.n # last_call.n /\ last_call'.op = op

\* timestamps without those whose age at now is W seconds or more
Unexpired(timestamps, now) ==
    SelectSeq(timestamps, LAMBDA t : ~(now - t >= WindowSeconds))

\* self.requests[key] after the step
RequestsAfter(key) ==
    IF key \in DOMAIN limiter_requests' THEN limiter_requests'[key] ELSE <<>>

\* C23: is_allowed(key) returns true iff fewer than N timestamps of the key
\* are left once those of age W or more are discarded; it appends the
\* current time exactly when it returns true, and leaves every other key
\* as it was.
C23_IsAllowedSlidingWindow ==
    [][CallStep("is_allowed") =>
        LET key == last_call'.key
            left == Unexpired(RequestsOf(key), limiter_now)
        IN  /\ last_call'.allowed <=> Len(left) < MaxRequests
            /\ RequestsAfter(key) =
                  IF last_call'.allowed THEN Append(left, limiter_now) ELSE left
            /\ \A other \in LimiterKeys \ {key} :
                  /\ other \in DOMAIN limiter_requests'
                        <=> other \in DOMAIN limiter_requests
                  /\ RequestsAfter(other) = RequestsOf(other)]_vars

\* C23 witness: a call for "k" returned true after its old timestamps had
\* expired, while "other" has timestamps
C23_Witness ==
    /\ last_call.op = "is_allowed" /\ last_call.key = "k" /\ last_call.allowed
    /\ Len(admitted["k"]) = MaxRequests + 1
    /\ RequestsOf("k") = <<limiter_now>>
    /\ RequestsOf("other") # <<>>

\* C24: of any N + 1 admitted calls of a key, the last is at least W seconds
\* after the first; and a key that was denied is admitted by a call made W
\* seconds or more after its oldest recorded request.
C24_AtMostNPerWindow ==
    /\ [](\A key \in LimiterKeys : \A i \in DOMAIN admitted[key] :
            (i + MaxRequests) \in DOMAIN admitted[key] =>
                admitted[key][i + MaxRequests] - admitted[key][i]
                    >= WindowSeconds)
    /\ [][(/\ CallStep("is_allowed")
           /\ last_call'.key \in denied
           /\ RequestsOf(last_call'.key) # <<>>
           /\ limiter_now - Head(RequestsOf(last_call'.key)) >= WindowSeconds)
          => last_call'.allowed]_vars

\* C24 witness: N calls for "k" were admitted at one instant, the next one
\* was denied, and the one after it, W seconds after the first, was admitted
C24_Witness ==
    /\ last_call.op = "is_allowed" /\ last_call.key = "k" /\ last_call.allowed
    /\ Len(admitted["k"]) = MaxRequests + 1
    /\ admitted["k"][MaxRequests] = admitted["k"][1]
    /\ last_call.after_denial
    /\ limiter_now = admitted["k"][1] + WindowSeconds

\* C25: get_remaining(key) returns max(0, N - the number of the key's
\* timestamps younger than W), which is positive exactly when is_allowed
\* would return true; it records nothing and leaves the unexpired
\* timestamps of every key as they were.
C25_GetRemainingConsumesNothing ==
    [][CallStep("get_remaining") =>
        LET young == Len(Unexpired(RequestsOf(last_call'.key), limiter_now))
        IN  /\ last_call'.remaining =
                  IF MaxRequests - young > 0 THEN MaxRequests - young ELSE 0
            /\ last_call'.remaining > 0 <=> young < MaxRequests
            /\ admitted' = admitted
            /\ \A key \in LimiterKeys :
                  Unexpired(RequestsAfter(key), limiter_now)
                     = Unexpired(RequestsOf(key), limiter_now)]_vars

\* C25 witness: get_remaining answered 0 for a key whose quota is used up,
\* and the key's timestamps are still there
C25_Witness ==
    /\ last_call.op = "get_remaining" /\ last_call.remaining = 0
    /\ Len(RequestsOf(last_call.key)) = MaxRequests

\* C26: a sweep removes exactly the keys without a timestamp younger than W
\* and leaves the other keys with exactly their unexpired timestamps, none
\* of them empty; and at every moment, swept or not, the unexpired
\* timestamps of a key are those of its admitted calls, so that the
\* results of is_allowed and get_remaining are the same with and without
\* sweeps.
C26_SweepChangesNoResult ==
    /\ [][CallStep("cleanup_old_keys") =>
            /\ DOMAIN limiter_requests' =
                  {key \in DOMAIN limiter_requests :
                      Unexpired(limiter_requests[key], limiter_now) # <<>>}
            /\ \A key \in DOMAIN limiter_requests' :
                  /\ limiter_requests'[key] # <<>>
                  /\ limiter_requests'[key] =
                        Unexpired(limiter_requests[key], limiter_now)]_vars
    /\ [](\A key \in LimiterKeys :
            Unexpired(RequestsOf(key), limiter_now)
               = Unexpired(admitted[key], limiter_now))

\* C26 witness: a sweep has removed "k", whose timestamps had expired, and
\* kept "other" with its timestamps
C26_Witness ==
    /\ last_call.op = "cleanup_old_keys"
    /\ admitted["k"] # <<>>
    /\ "k" \notin DOMAIN limiter_requests
    /\ RequestsOf("other") # <<>>


(***************************************************************************)
(* One job from discover_urls to the last batch: ingest() calls            *)
(* discover_urls, check_existing_documents and crawl_urls_async one after  *)
(* the other and then indexes what crawl_urls_async returned.  The steps   *)
(* inside the calls are the actions above; the actions here are the lines  *)
(* of ingest between the calls.  An object that a call created and that    *)
(* nothing refers to after its return is given up at the hand-over.        *)
(***************************************************************************)
\* ingest.py 94: discover_urls(seed_urls, domain, max_urls=100000)
INGEST_MAX_URLS == 100000

\* ingest.py 134: max_pages=100000
INGEST_MAX_PAGES == 100000

\* the URLs of the site in Python's string order
UrlOrder ==
    <<"https://ex.com/", "https://ex.com/a", "https://ex.com/b",
      "https://ex.com/doc.pdf">>

\* sorted(found): url_discovery.py 100
Sorted(found) == SelectSeq(UrlOrder, LAMBDA u : u \in found)

\* what the index holds for the job's namespace when the job starts
IndexedBefore == {{}, {"https://ex.com/a"}}

\* app.py 78-106 and ingest.py 76-94: the job is accepted at second 1, its
\* thread runs ingest up to the call of discover_urls
NewPipeline ==
    /\ crawl_status =
          Put(<<>>, IndexingId,
              [NewRecord(IndexingUrl) EXCEPT !.stage = "url_discovery"])
    /\ order = <<IndexingId>>
    /\ clock = 1
    /\ threads = <<[NewThread(IndexingUrl, IndexingId) EXCEPT !.pc = "discover"]>>
    /\ issued = {IndexingId}
    /\ resp = NoResp
    /\ listing = NoListing
    /\ site = "small"
    /\ seed_urls = <<IndexingUrl>>
    /\ max_urls = INGEST_MAX_URLS
    /\ visited = {}
    /\ found_urls = {}
    /\ ready = seed_urls
    /\ waiters = <<>>
    /\ tasks = {}
    /\ holders = 0
    /\ fetch_failed = FALSE
    /\ returned = FALSE
    /\ discovered = {}
    /\ precheck_pc = "idle"
    /\ discovered_urls = <<>>
    /\ index_sources \in IndexedBefore
    /\ sample_i = 0
    /\ existing_urls = {}
    /\ client_failed = FALSE
    /\ queried = <<>>
    /\ query_failed = {}
    /\ to_fetch = <<>>

\* ingest.py 94-102: discover_urls has returned its sorted list, the stage
\* is written and check_existing_documents is called; the discovery object
\* is gone
CheckExisting ==
    /\ returned /\ precheck_pc = "idle"
    /\ crawl_status' =
          [crawl_status EXCEPT ![IndexingId].stage = "deduplication_check"]
    /\ discovered_urls' = Sorted(discovered)
    /\ precheck_pc' = "client"
    /\ visited' = {} /\ found_urls' = {} /\ fetch_failed' = FALSE
    /\ UNCHANGED <<order, clock, threads, issued, resp, listing>>
    /\ UNCHANGED <<site, seed_urls, max_urls, ready, waiters, tasks, holders,
                   returned, discovered>>
    /\ UNCHANGED <<index_sources, sample_i, existing_urls, client_failed,
                   queried, query_failed, to_fetch>>
    /\ UNCHANGED <<fnVars, crawlerVars, indexVars, limiterVars>>

\* ingest.py 107-115 and the return to crawl_with_status
NothingToCrawl ==
    /\ precheck_pc = "returned" /\ ingest_pc = "idle"
    /\ crawl_status' =
          [crawl_status EXCEPT ![IndexingId].result = AlreadyIndexedResult]
    /\ ingest_pc' = "returned"
    /\ UNCHANGED <<docs, unique_docs, split_docs, batch_i, indexed_count,
                   failed_batches, attempts>>
    /\ UNCHANGED <<order, clock, threads, issued, resp, listing>>
    /\ UNCHANGED <<discVars, fnVars, crawlerVars, precheckVars, limiterVars>>

\* ingest.py 117-136, async_crawler.py 211-234: the stage is written and
\* crawl_urls_async makes its crawler and calls start_async with the URLs
\* the filter left; the locals of the check are gone
StartExtraction ==
    /\ precheck_pc = "extract" /\ crawl_result.phase = "none"
    /\ crawl_status' =
          [crawl_status EXCEPT ![IndexingId].stage = "content_extraction"]
    /\ urls' = to_fetch
    /\ max_pages' = INGEST_MAX_PAGES
    /\ crawl_result' = [phase |-> "new", documents |-> <<>>]
    /\ crawler_visited' = {} /\ documents' = <<>> /\ error_count' = 0
    /\ pending' = <<>> /\ sem_queue' = <<>> /\ fetching' = {} /\ sem_held' = 0
    /\ requests' = <<>> /\ outcome' = <<>>
    /\ sample_i' = 0 /\ client_failed' = FALSE /\ queried' = <<>>
    /\ query_failed' = {}
    /\ UNCHANGED <<precheck_pc, discovered_urls, index_sources, existing_urls,
                   to_fetch>>
    /\ UNCHANGED <<order, clock, threads, issued, resp, listing>>
    /\ UNCHANGED <<discVars, fnVars, indexVars, limiterVars>>

\* the text of a page of n characters
PageText(n) == "text of " \o ToString(n) \o " characters"

\* the Documents of the crawler, as ingest reads them
DocumentsOf(ds) ==
    [i \in 1..Len(ds) |-> Document(PageText(ds[i].text_len), ds[i].source)]

\* what leaves crawl_urls_async: the Documents; the crawler is gone
CrawlerGone ==
    /\ crawler_visited' = {} /\ error_count' = 0
    /\ pending' = <<>> /\ sem_queue' = <<>> /\ fetching' = {} /\ sem_held' = 0
    /\ requests' = <<>> /\ outcome' = <<>>
    /\ UNCHANGED <<urls, max_pages, documents, crawl_result>>

\* ingest starts to index as soon as the crawler holds one Document
ExtractionToIndexing_streaming ==
    /\ documents # <<>> /\ ingest_pc = "idle"
    /\ crawl_status' =
          [crawl_status EXCEPT ![IndexingId].pages_crawled = Len(documents),
                               ![IndexingId].stage = "indexing"]
    /\ docs' = DocumentsOf(documents)
    /\ ingest_pc' = "dedup"
    /\ UNCHANGED crawlerVars
    /\ UNCHANGED <<unique_docs, split_docs, batch_i, indexed_count,
                   failed_batches, attempts>>
    /\ UNCHANGED <<order, clock, threads, issued, resp, listing>>
    /\ UNCHANGED <<discVars, fnVars, precheckVars, limiterVars>>

\* ingest.py 131-186: crawl_urls_async has returned some Document; the
\* counters are written and the indexing begins
ExtractionToIndexing ==
    /\ crawl_result.phase = "done" /\ ingest_pc = "idle"
    /\ documents # <<>>
    /\ crawl_status' =
          [crawl_status EXCEPT ![IndexingId].pages_crawled = Len(documents),
                               ![IndexingId].stage = "indexing"]
    /\ docs' = DocumentsOf(documents)
    /\ ingest_pc' = "dedup"
    /\ CrawlerGone
    /\ UNCHANGED <<unique_docs, split_docs, batch_i, indexed_count,
                   failed_batches, attempts>>
    /\ UNCHANGED <<order, clock, threads, issued, resp, listing>>
    /\ UNCHANGED <<discVars, fnVars, precheckVars, limiterVars>>

\* ingest.py 131-180: crawl_urls_async has returned no Document
NoDocuments ==
    /\ crawl_result.phase = "done" /\ ingest_pc = "idle"
    /\ documents = <<>>
    /\ crawl_status' =
          [crawl_status EXCEPT ![IndexingId].stage = "failed",
                               ![IndexingId].perror = "No documents found",
                               ![IndexingId].result = NoDocumentsResult]
    /\ ingest_pc' = "returned"
    /\ CrawlerGone
    /\ UNCHANGED <<docs, unique_docs, split_docs, batch_i, indexed_count,
                   failed_batches, attempts>>
    /\ UNCHANGED <<order, clock, threads, issued, resp, listing>>
    /\ UNCHANGED <<discVars, fnVars, precheckVars, limiterVars>>

InitPipeline ==
    /\ NewPipeline /\ IdleFunctions /\ IdleCrawler /\ IdleIndexing
    /\ IdleLimiter

NextPipeline ==
    \/ NextDiscovery
    \/ CheckExisting
    \/ NextPrecheck
    \/ NothingToCrawl
    \/ StartExtraction
    \/ NextCrawler
    \/ NoDocuments
    \/ ExtractionToIndexing
    \/ NextIndexing

SpecPipeline == InitPipeline /\ [][NextPipeline]_vars


(***************************************************************************)
(* Claims about the phases of one job and its two pools of fetches.        *)
(***************************************************************************)
\* some coroutine of discover() has not returned
DiscoveryFetching == tasks # {} \/ waiters # <<>> \/ ready # <<>>

\* some coroutine of start_async() has not returned
ExtractionFetching == fetching # {} \/ sem_queue # <<>> \/ pending # <<>>

\* C27: within one job no extraction fetch starts before discovery has
\* returned its final URL set and the filter of indexed URLs has run, every
\* URL fetched is one the filter left, and no batch is handed to the
\* embedding and the index before every extraction fetch has finished.
C27_PhasesNeverOverlap ==
    /\ [](ExtractionFetching =>
             returned /\ ~DiscoveryFetching /\ precheck_pc = "extract")
    /\ [](attempts # <<>> =>
             crawl_result.phase = "done" /\ ~ExtractionFetching)
    /\ [][/\ returned => returned' /\ discovered' = discovered
          /\ Len(requests') > Len(requests) =>
                /\ returned /\ ~DiscoveryFetching
                /\ precheck_pc = "extract"
                /\ Range(to_fetch) = Range(discovered_urls)
                /\ Range(to_fetch) \subseteq discovered \ existing_urls
                /\ requests'[Len(requests')] \in
                      {crawler_normalize_url(to_fetch[i]) : i \in DOMAIN to_fetch}
          /\ Len(attempts') > Len(attempts) =>
                /\ crawl_result.phase = "done"
                /\ ~ExtractionFetching /\ ~DiscoveryFetching]_vars

\* a job that went through discovery, the filter and the extraction of 2
\* pages, and has handed its first batch to the index
C27_Witness ==
    /\ returned /\ precheck_pc = "extract"
    /\ Len(crawl_result.documents) >= 2
    /\ attempts # <<>>

\* C28: at every moment the discovery fetches in flight are at most
\* DiscoveryConcurrency and the extraction fetches in flight are at most
\* CrawlerConcurrency, each pool holding one permit per fetch in flight,
\* however many coroutines were spawned and wait.
C28_PoolsWithinLimits ==
    /\ Cardinality(tasks) <= DiscoveryConcurrency
    /\ holders = Cardinality(tasks)
    /\ Cardinality(fetching) <= CrawlerConcurrency
    /\ sem_held = Cardinality(fetching)

\* the extraction pool is full while a spawned coroutine waits for a permit,
\* in a job whose discovery has returned
C28_Witness ==
    /\ returned
    /\ Cardinality(fetching) = CrawlerConcurrency
    /\ sem_queue # <<>>

(***************************************************************************)
(* Claims about failing fetches and the depth of discovery.                *)
(***************************************************************************)
\* the seeds of the running call, as a set
Seeds == {seed_urls[i] : i \in DOMAIN seed_urls}

\* C29: a fetch that fails during discovery is a page with no links: the
\* failing step adds no URL and spawns no coroutine, takes nothing away from
\* what was found, the call still returns after a failure, and it returns
\* every URL found, those found through other pages included.
C29_FetchFailureSwallowed ==
    /\ [](returned => discovered = found_urls)
    /\ [][/\ found_urls \subseteq found_urls'
          /\ (~fetch_failed /\ fetch_failed') =>
                 /\ found_urls' = found_urls
                 /\ ready' = ready
                 /\ visited' = visited
                 /\ ~returned']_vars
    /\ (fetch_failed ~> returned)

\* a call that returned the root page's links although a fetch had failed
C29_Witness ==
    /\ returned /\ fetch_failed
    /\ Cardinality(discovered) >= 4

\* the depth of a job submitted without one: data.get('depth', 2)
DEFAULT_DEPTH == 2

\* the pages within n link hops of the pages S, by the links crawl_url follows
RECURSIVE WithinHops(_, _, _)
WithinHops(s, S, n) ==
    LET links(pg) ==
            {normalize_url(pg, Strip(PageOf(s, pg).hrefs[i])) :
                i \in {k \in DOMAIN PageOf(s, pg).hrefs :
                          ~Unusable(Strip(PageOf(s, pg).hrefs[k]))}}
        next == S \cup UNION {{u \in links(pg) : InAllowedDomain(u, allowed_domain)} :
                                 pg \in {q \in S : IsHtml(PageOf(s, q).ctype)}}
    IN  IF n = 0 THEN S ELSE WithinHops(s, next, n - 1)

\* C30: whatever max_depth the job was given, no URL more than max_depth link
\* hops away from the root URL is discovered or fetched.
C30_WithinMaxDepth ==
    \A max_depth \in 1..DEFAULT_DEPTH :
        found_urls \cup visited \subseteq WithinHops(site, Seeds, max_depth)


(***************************************************************************)
(* Further claims about content extraction.                                *)
(***************************************************************************)
\* C31: a fetch_and_parse call for a URL already visited, or one that starts
\* when the Document cap or the error cap is reached, does nothing: no
\* request, no line in the audit log, no permit taken, and the visited set,
\* the Documents and the error counter as they were.
C31_SkippedCallDoesNothing ==
    [][(/\ pending # <<>>
        /\ \/ Head(pending) \in crawler_visited
           \/ Len(documents) >= max_pages
           \/ error_count >= MaxErrors
        /\ pending' # pending)
       => /\ pending' = Tail(pending)
          /\ requests' = requests
          /\ outcome' = outcome
          /\ fetching' = fetching /\ sem_held' = sem_held
          /\ sem_queue' = sem_queue
          /\ crawler_visited' = crawler_visited
          /\ documents' = documents
          /\ error_count' = error_count]_vars

\* the run handed /p, /q and /p#top is over: /p#top was skipped for being
\* visited, no cap was reached, and 2 requests were made
C31_Witness ==
    /\ crawl_result.phase = "done"
    /\ Len(urls) = 3
    /\ crawler_visited = {"https://ex.com/p", "https://ex.com/q"}
    /\ Len(requests) = 2
    /\ DOMAIN outcome = crawler_visited
    /\ error_count < MaxErrors /\ Len(documents) < max_pages


(***************************************************************************)
(* Further claims about URL discovery.                                     *)
(***************************************************************************)
\* the found-set has reached max_urls
AtCap == Cardinality(found_urls) >= max_urls

\* the URLs whose fetch holds a permit or waits for one
InFlight == {t.url : t \in tasks} \cup Range(waiters)

\* C32: discover returns on every site and under every pattern of fetch
\* failures; a URL is fetched for its links at most once (a fetch begins
\* only for a URL not yet visited, visited never shrinks, and no URL has
\* two fetches under way); once the found-set has reached max_urls no
\* fetch begins and no link is added, and a call that returns below the
\* cap has visited every URL it found.
C32_DiscoverTerminates ==
    /\ <>returned
    /\ [](/\ InFlight \subseteq visited
          /\ Cardinality(tasks) + Len(waiters) = Cardinality(InFlight)
          /\ returned => (AtCap \/ found_urls \subseteq visited))
    /\ [][/\ visited \subseteq visited'
          /\ InFlight' \ InFlight \subseteq visited' \ visited
          /\ AtCap =>
                /\ visited' = visited
                /\ found_urls' \ found_urls \subseteq InFlight]_vars

\* a call stopped by the cap: it has returned with a found URL it never
\* visited
C32_Witness ==
    /\ returned
    /\ max_urls >= 2
    /\ AtCap
    /\ ~(found_urls \subseteq visited)


(***************************************************************************)
(* Further claims about the jobs and their records.                        *)
(***************************************************************************)
\* C33: while a job indexes, the pages_indexed of its record equals the
\* indexed_count its loop has reached and never decreases, and the errors of
\* its record equal the batches that failed; when the loop is over,
\* indexed_count is the chunks of the batches that succeeded: with the
\* chunks of the failed batches it makes the total.
C33_IndexingCounters ==
    /\ [](\A j \in DOMAIN threads :
            LET rec == crawl_status[threads[j].id]
                res == threads[j].result
            IN  /\ threads[j].pc = "batch" =>
                      /\ rec.pages_indexed = threads[j].indexed
                      /\ rec.errors = threads[j].failed
                /\ res.kind = "indexed" =>
                      /\ res.indexed <= res.total
                      /\ res.indexed + res.failed * BatchSize >= res.total
                      /\ res.failed = 0 => res.indexed = res.total
                      /\ rec.pages_indexed = res.indexed
                      /\ rec.errors = res.failed)
    /\ [][\A k \in DOMAIN crawl_status :
             crawl_status'[k].pages_indexed >= crawl_status[k].pages_indexed]_vars


\* C35: whenever the status endpoint is asked, a snapshot whose status is
\* completed carries the result summary and a snapshot whose status is
\* failed carries the error message.
C35_TerminalSnapshotComplete ==
    \A k \in StatusKeys \cup issued :
        LET r == crawl_status_endpoint(k) IN
        r.code = 200 =>
            /\ r.body.status = "completed" => r.body.result # NoResult
            /\ r.body.status = "failed" => r.body.error # ""

\* C36: every accepted submit gets a crawl id that no submit got before: it
\* overwrites no record, and no two background tasks write to one record.
C36_FreshJobIds ==
    /\ [](\A i, j \in DOMAIN threads : threads[i].id = threads[j].id => i = j)
    /\ [][(SubmitAnswered /\ resp'.code = 200) =>
             /\ resp'.id \notin issued
             /\ resp'.id \notin DOMAIN crawl_status
             /\ \A k \in DOMAIN crawl_status : crawl_status'[k] = crawl_status[k]]_vars

(***************************************************************************)
(* Further claims about the indexing.                                      *)
(***************************************************************************)
\* C34: the deduplication drops a Document only if an earlier Document has
\* the same text and the same source: two Documents that differ in text or
\* in source are both kept.
C34_DifferentDocumentsKept ==
    ingest_pc \notin {"idle", "dedup"} =>
        /\ \A a, b \in DOMAIN docs :
              (docs[a].page_content # docs[b].page_content
                  \/ docs[a].source # docs[b].source) =>
                 {docs[a], docs[b]} \subseteq Range(unique_docs)
        /\ Len(unique_docs) >= Cardinality(Range(docs))


(***************************************************************************)
(* Further claims about the functions without state.                       *)
(***************************************************************************)
\* the links of a root page: to a page of its own host, to a page of the
\* domain ingest derives from it, and to a page of a subdomain of that
RootLinks(root) ==
    {"/a", "https://" \o DomainOf(root) \o "/a",
     "https://sub." \o DomainOf(root) \o "/a"}

\* C37: for the root URL ingest is called with, every link that discovery
\* takes for a URL of the target domain is accepted by the validity filter
\* of the extraction, whose domain is the root URL's host: the two agree,
\* also when that host starts with www.
C37_CandidatesAdmitted ==
    fn_call.fn = "namespace" =>
        LET root == fn_call.args[1] IN
        \A href \in RootLinks(root) :
            LET new_url == normalize_url(root, href) IN
            InAllowedDomain(new_url, DomainOf(root)) =>
                is_valid_url(crawler_normalize_url(new_url), Netloc(root))


(***************************************************************************)
(* Further claims about the caps of a crawl.                               *)
(***************************************************************************)
\* C38: the number of Documents collected never exceeds max_pages and the
\* error counter never exceeds max_errors, whatever the interleaving of the
\* workers, those admitted before a cap was reached included.
C38_CapsNeverExceeded ==
    /\ Len(documents) <= max_pages
    /\ error_count <= MaxErrors


(***************************************************************************)
(* Further claims about the Documents of one job.                          *)
(***************************************************************************)
\* no two Documents of ds were fetched from the same URL
DistinctSources(ds) ==
    \A i, j \in DOMAIN ds : ds[i].source = ds[j].source => i = j

\* C39: within one job no two Documents of the crawler have the same source,
\* every source is in the visited set, and therefore the deduplication
\* removes no Document of a list in which the sources are distinct.
C39_DedupRemovesNothing ==
    /\ DistinctSources(documents)
    /\ \A i \in DOMAIN documents : documents[i].source \in crawler_visited
    /\ (ingest_pc = "split" /\ DistinctSources(docs)) => unique_docs = docs


(***************************************************************************)
(* Further claims about the end of a job.                                  *)
(***************************************************************************)
\* C40: an accepted job that has reached a terminal status, completed or
\* failed, never changes status afterwards: no step takes the record of a
\* terminal job away or gives it another status.
C40_TerminalStatusFinal ==
    [][\A k \in DOMAIN crawl_status :
          crawl_status[k].status \in Terminal =>
              /\ k \in DOMAIN crawl_status'
              /\ crawl_status'[k].status = crawl_status[k].status]_vars

=============================================================================
